---- MODULE Spec2Model ----
(***************************************************************************)
(* Model of silx.gui.plot.PlotTools.ProfileToolBar: the profile toolbar    *)
(* of a 2D plot.  The toolbar stores a region of interest (ROI), and       *)
(* updateProfile turns the ROI and the active image of the plot into a 1D  *)
(* profile curve (shown in the profile window) and a ROI polygon overlay   *)
(* (shown in the plot).                                                    *)
(*                                                                         *)
(* Numbers.  Python floats are modelled by exact rationals <<n, d>> with   *)
(* d > 0 in lowest terms; <<0, 0>> is NaN (numpy's mean of an empty        *)
(* slice).  float32 rounding is not modelled.  The general free-line path  *)
(* divides by the length L of the line, a square root: those values are    *)
(* kept exactly as p + q*L with rational p, q (records [p, q]).            *)
(*                                                                         *)
(* The module also models the 3D items of silx.gui.plot3d.items.mesh       *)
(* (Mesh, _CylindricalVolume, Box, Cylinder, Hexagon: a set call builds    *)
(* the vertices and normals of the item and replaces the mesh of its       *)
(* scene primitive) and silx.gui.plot.PlotTools.PositionInfo (the widget   *)
(* that shows the mouse position through a list of converters).            *)
(***************************************************************************)
EXTENDS Integers, Sequences, FiniteSets, TLC

VARIABLES
    roiInfo,        \* ProfileToolBar._roiInfo: <<>> (None) or <<[start, end, mode]>>
    overlayColor,   \* ProfileToolBar._overlayColor
    lineWidth,      \* value of ProfileToolBar.lineWidthSpinBox
    checkedAction,  \* checked action of ProfileToolBar.actionGroup
    connected,      \* number of connections of _plotWindowSlot to sigPlotSignal
    activeImage,    \* plotWindow.getActiveImage(): <<>> (None) or <<image>>
    items,          \* overlay items of plotWindow, a sequence of records
    curves,         \* curves of profileWindow, a sequence of records
    graphTitle,     \* title of profileWindow
    raised,         \* exception that left the last handler ("none" if none)
    lastOp,         \* last operation run; "updateProfile" stands for every
                    \* handler that does nothing but call updateProfile
    call,           \* arguments of the last direct call of a method
    ret,            \* value returned by the last direct call
    itemClass,      \* class of the 3D item: "Mesh", "Box", "Cylinder", "Hexagon"
    mesh,           \* the item's _mesh
    children,       \* children of the item's scene primitive, a sequence
    attrs,          \* the other attributes of the item (position, size, ...)
    emitted,        \* what the last set call emitted on sigItemChanged
    fields,         \* PositionInfo._fields with the text and style of each
                    \* line edit: records [name, func, text, styleSheet]
    autoSnapToActiveCurve,  \* PositionInfo.autoSnapToActiveCurve
    graphCursor,    \* plot.getGraphCursor() of the plot of PositionInfo
    activeCurve,    \* plot.getActiveCurve(): <<>> (None) or <<curve>>
    transform,      \* the plot's view, which gives plot.dataToPixel
    legends,        \* CurveLegendsWidget._legends in insertion order: a
                    \* sequence of records [legend, widget]
    layoutWidgets,  \* the legend widgets in the layout of CurveLegendsWidget
    parented,       \* the legend widgets whose parent is CurveLegendsWidget
    plotRef,        \* the plot of CurveLegendsWidget._plotRef: <<>> or <<plot>>
    connections,    \* for every plot, the number of connections of
                    \* _plotContentChanged to its sigContentChanged
    plotCurves,     \* for every plot, the legends of its curves
    created         \* the number of legend widgets created

\* the 3D item
meshVars == <<itemClass, mesh, children, attrs, emitted>>

\* the PositionInfo widget and its plot
infoVars ==
    <<fields, autoSnapToActiveCurve, graphCursor, activeCurve, transform>>

\* the CurveLegendsWidget and the plots
legendVars ==
    <<legends, layoutWidgets, parented, plotRef, connections, plotCurves,
      created>>

vars == <<roiInfo, overlayColor, lineWidth, checkedAction, connected,
          activeImage, items, curves, graphTitle, raised, lastOp, call, ret,
          meshVars, infoVars, legendVars>>

toolbarVars == <<roiInfo, overlayColor, lineWidth, checkedAction, connected,
                 activeImage, items, curves, graphTitle, raised>>

None == <<>>

Some(x) == <<x>>

\* Python values held by an attribute that is None, an int or an object
PyNone == [type |-> "NoneType"]

PyInt(n) == [type |-> "int", value |-> n]

\* no 3D item under study
NoItem ==
    /\ itemClass = "none"
    /\ mesh = PyNone
    /\ children = <<>>
    /\ attrs = None
    /\ emitted = None

\* no CurveLegendsWidget under study
NoLegends ==
    /\ legends = <<>>
    /\ layoutWidgets = {}
    /\ parented = {}
    /\ plotRef = <<>>
    /\ connections = <<>>
    /\ plotCurves = <<>>
    /\ created = 0

\* no PositionInfo widget under study
NoPositionInfo ==
    /\ fields = <<>>
    /\ autoSnapToActiveCurve = FALSE
    /\ graphCursor = FALSE
    /\ activeCurve = None
    /\ transform = None

(***************************************************************************)
(* Bounds of the model                                                     *)
(***************************************************************************)
MaxDim == 3         \* images have 1..MaxDim rows and columns
IndexBelow == 2     \* row/column ranges of direct calls start at -IndexBelow
MaxIndex == 5       \* highest bound of a row/column range in direct calls
CoordBelow == 2     \* plot coordinates of a ROI: -CoordBelow/2 .. MaxCoord/2
MaxCoord == 3
MaxWidth == 3       \* the spin box takes the values 0..MaxWidth

(***************************************************************************)
(* Integers and rationals                                                  *)
(***************************************************************************)
Min(a, b) == IF a < b THEN a ELSE b

Max(a, b) == IF a > b THEN a ELSE b

Abs(a) == IF a < 0 THEN -a ELSE a

RECURSIVE GCD(_, _)
GCD(a, b) == IF b = 0 THEN a ELSE GCD(b, a % b)

\* n / d with both terms divided by g, and the sign carried by the numerator
Reduced(n, d, g) ==
    IF d < 0 THEN <<-(n \div g), -(d \div g)>> ELSE <<n \div g, d \div g>>

\* the rational n / d in lowest terms with a positive denominator; NaN for d = 0
Rat(n, d) ==
    IF d = 0 THEN <<0, 0>> ELSE Reduced(n, d, GCD(Abs(n), Abs(d)))

NaN == <<0, 0>>

IsNaN(x) == x[2] = 0

I2R(n) == <<n, 1>>

RAdd(x, y) == IF IsNaN(x) \/ IsNaN(y) THEN NaN
              ELSE Rat(x[1] * y[2] + y[1] * x[2], x[2] * y[2])

RNeg(x) == <<-x[1], x[2]>>

RSub(x, y) == RAdd(x, RNeg(y))

RMul(x, y) == IF IsNaN(x) \/ IsNaN(y) THEN NaN
              ELSE Rat(x[1] * y[1], x[2] * y[2])

\* x / y for y # 0
RDiv(x, y) == IF IsNaN(x) \/ IsNaN(y) THEN NaN
              ELSE Rat(x[1] * y[2], x[2] * y[1])

RLt(x, y) == x[1] * y[2] < y[1] * x[2]

\* Python int(x) of a float: truncation toward zero.
Trunc(x) == IF x[1] >= 0 THEN x[1] \div x[2] ELSE -((-x[1]) \div x[2])

RLe(x, y) == x[1] * y[2] <= y[1] * x[2]

RECURSIVE RMinSeq(_)
\* Python min() of a non-empty sequence of rationals
RMinSeq(xs) ==
    IF Len(xs) = 1 THEN xs[1]
    ELSE LET m == RMinSeq(Tail(xs)) IN IF RLt(m, xs[1]) THEN m ELSE xs[1]

RECURSIVE RMaxSeq(_)
\* Python max() of a non-empty sequence of rationals
RMaxSeq(xs) ==
    IF Len(xs) = 1 THEN xs[1]
    ELSE LET m == RMaxSeq(Tail(xs)) IN IF RLt(xs[1], m) THEN m ELSE xs[1]

\* the integer square root of n >= 0
ISqrt(n) == CHOOSE k \in 0..n : k * k <= n /\ (k + 1) * (k + 1) > n

IsSquare(n) == n >= 0 /\ ISqrt(n) * ISqrt(n) = n

(***************************************************************************)
(* Numbers p + q * L, where L is the length of the free line: L is given   *)
(* by len = [len2, root], with len2 = L^2 a rational and root = Some(L)    *)
(* when L is rational, None when it is not.  The representation is         *)
(* unique: q = 0 whenever L is rational.                                   *)
(***************************************************************************)
\* a rational in lowest terms is the square of a rational iff both its
\* terms are squares
Length(len2) ==
    [len2 |-> len2,
     root |-> IF IsSquare(len2[1]) /\ IsSquare(len2[2])
              THEN Some(<<ISqrt(len2[1]), ISqrt(len2[2])>>) ELSE None]

\* no length: for numbers with q = 0 only
NoLength == [len2 |-> I2R(0), root |-> Some(I2R(0))]

Surd(p, q, len) ==
    IF q = I2R(0) THEN [p |-> p, q |-> I2R(0)]
    ELSE IF len.root # None
    THEN [p |-> RAdd(p, RMul(q, len.root[1])), q |-> I2R(0)]
    ELSE [p |-> p, q |-> q]

\* a rational as such a number
Q(x) == [p |-> x, q |-> I2R(0)]

QSeq(xs) == [k \in 1..Len(xs) |-> Q(xs[k])]

SAdd(x, y, len) == Surd(RAdd(x.p, y.p), RAdd(x.q, y.q), len)

SSub(x, y, len) == Surd(RSub(x.p, y.p), RSub(x.q, y.q), len)

\* r * x for a rational r
SScale(r, x, len) == Surd(RMul(r, x.p), RMul(r, x.q), len)

SMul(x, y, len) ==
    Surd(RAdd(RMul(x.p, y.p), RMul(RMul(x.q, y.q), len.len2)),
         RAdd(RMul(x.p, y.q), RMul(x.q, y.p)), len)

\* x / y for y # 0: x * (y.p - y.q L) / (y.p^2 - y.q^2 L^2)
SDiv(x, y, len) ==
    LET norm == RSub(RMul(y.p, y.p), RMul(RMul(y.q, y.q), len.len2))
        conj == [p |-> y.p, q |-> RNeg(y.q)]
    IN  SScale(RDiv(I2R(1), norm), SMul(x, conj, len), len)

\* 1 / L = L / len2
InvLength(len) == Surd(I2R(0), RDiv(I2R(1), len.len2), len)

(***************************************************************************)
(* Images: numpy 2D arrays, image["pix"][r][c] with 0-based r and c        *)
(***************************************************************************)
\* A height x width array whose pixels are all different and non-zero.
TestArray(height, width) ==
    [height |-> height, width |-> width,
     pix |-> [r \in 0..(height - 1) |->
                [c \in 0..(width - 1) |-> 1 + r * width + c]]]

Arrays == {TestArray(h, w) : h \in 1..MaxDim, w \in 1..MaxDim}

\* numpy.transpose
Transpose(image) ==
    [height |-> image.width, width |-> image.height,
     pix |-> [r \in 0..(image.width - 1) |->
                [c \in 0..(image.height - 1) |-> image.pix[c][r]]]]

RECURSIVE SumRows(_, _, _, _)
\* sum of image[rowStart:rowEnd, c]
SumRows(image, c, rowStart, rowEnd) ==
    IF rowStart >= rowEnd THEN 0
    ELSE image.pix[rowStart][c] + SumRows(image, c, rowStart + 1, rowEnd)

RECURSIVE SumCols(_, _, _, _)
\* sum of image[r, colStart:colEnd]
SumCols(image, r, colStart, colEnd) ==
    IF colStart >= colEnd THEN 0
    ELSE image.pix[r][colStart] + SumCols(image, r, colStart + 1, colEnd)

\* numpy.mean(image[rowStart:rowEnd, colStart:colEnd], axis=axis) for
\* 0 <= rowStart, rowEnd <= height and 0 <= colStart, colEnd <= width.
\* An empty slice along the reduced axis gives NaN, one along the other
\* axis gives an empty array.
MeanAxis(image, rowStart, rowEnd, colStart, colEnd, axis) ==
    LET nRows == Max(0, rowEnd - rowStart)
        nCols == Max(0, colEnd - colStart)
    IN  IF axis = 0
        THEN [k \in 1..nCols |->
                Rat(SumRows(image, colStart + k - 1, rowStart, rowEnd), nRows)]
        ELSE [k \in 1..nRows |->
                Rat(SumCols(image, rowStart + k - 1, colStart, colEnd), nCols)]

\* numpy.zeros(n)
Zeros(n) == [k \in 1..n |-> I2R(0)]

\* profile[offset:offset + len(values)] = values, for offset >= 0:
\* the slice is cut at the end of profile; the assignment needs as many
\* values as the slice has places, or a single value (broadcast).
SliceAssign(profile, offset, values) ==
    LET first == Min(offset, Len(profile))
        stop == Min(offset + Len(values), Len(profile))
        places == Max(0, stop - first)
    IN  IF places = Len(values)
        THEN [error |-> "none",
              profile |-> [k \in 1..Len(profile) |->
                             IF k > first /\ k <= stop
                             THEN values[k - first] ELSE profile[k]]]
        ELSE IF Len(values) = 1
        THEN [error |-> "none",
              profile |-> [k \in 1..Len(profile) |->
                             IF k > first /\ k <= stop
                             THEN values[1] ELSE profile[k]]]
        ELSE [error |-> "ValueError", profile |-> profile]

(***************************************************************************)
(* ProfileToolBar._alignedPartialProfile                                   *)
(***************************************************************************)
\* The same with the length of the profile taken from the part of the range
\* that lies in the image.
AlignedPartialProfileClippedLength(image, rowRange, colRange, axis) ==
    IF ~(rowRange[1] < rowRange[2]) \/ ~(colRange[1] < colRange[2])
    THEN [error |-> "AssertionError", profile |-> <<>>]
    ELSE
    LET height == image.height
        width == image.width
        profileRange == IF axis = 0 THEN colRange ELSE rowRange
        rowStart == Min(Max(0, rowRange[1]), height)
        rowEnd == Min(Max(0, rowRange[2]), height)
        colStart == Min(Max(0, colRange[1]), width)
        colEnd == Min(Max(0, colRange[2]), width)
        imgProfile == MeanAxis(image, rowStart, rowEnd, colStart, colEnd, axis)
    IN  SliceAssign(Zeros(Len(imgProfile)), 0, imgProfile)

\* rowRange and colRange are pairs <<min, max>>, axis is 0 or 1.
AlignedPartialProfile(image, rowRange, colRange, axis) ==
    IF ~(rowRange[1] < rowRange[2]) \/ ~(colRange[1] < colRange[2])
    THEN [error |-> "AssertionError", profile |-> <<>>]
    ELSE
    LET height == image.height
        width == image.width
        profileRange == IF axis = 0 THEN colRange ELSE rowRange
        profileLength == Abs(profileRange[2] - profileRange[1])
        rowStart == Min(Max(0, rowRange[1]), height)
        rowEnd == Min(Max(0, rowRange[2]), height)
        colStart == Min(Max(0, colRange[1]), width)
        colEnd == Min(Max(0, colRange[2]), width)
        imgProfile == MeanAxis(image, rowStart, rowEnd, colStart, colEnd, axis)
        offset == - Min(0, profileRange[1])
    IN  SliceAssign(Zeros(profileLength), offset, imgProfile)

(***************************************************************************)
(* ProfileToolBar._alignedFullProfile                                      *)
(***************************************************************************)
\* values * scale + origin on every element of an array of integers
ToPlot(values, scale, origin) ==
    [k \in 1..Len(values) |-> RAdd(RMul(I2R(values[k]), scale), origin)]

\* The same without keeping the band inside the image.
FullBandStartUnclamped(start, height, roiWidth) == start

\* start = min(max(0, start), height - roiWidth)
FullBandStart(start, height, roiWidth) ==
    Min(Max(0, start), height - roiWidth)

\* Python 3 round(): to the nearest integer, halves to the even one
Round(x) ==
    LET floor == x[1] \div x[2]
        twice == 2 * (x[1] - floor * x[2])
    IN  IF twice < x[2] THEN floor
        ELSE IF twice > x[2] THEN floor + 1
        ELSE IF floor % 2 = 0 THEN floor ELSE floor + 1

\* The same rounding the position of the line instead of truncating it.
BandStartRounded(idx, roiWidth) == Round(RAdd(idx, Rat(1 - roiWidth, 2)))

\* lines 404 and 415: int(int(imgPos) + 0.5 - roiWidth / 2.) with
\* imgPos = int(idx)
BandStart(idx, roiWidth) ==
    Trunc(RAdd(I2R(Trunc(idx)), Rat(1 - roiWidth, 2)))

\* lines 417-436: the profile of the band [start, end[ of image, and its
\* area in plot coordinates
FullBandProfile(image, origin, scale, start, end, axis) ==
    [profile |-> IF start < image.height /\ end > 0
                 THEN MeanAxis(image, Max(0, start), Min(end, image.height),
                               0, image.width, 0)
                 ELSE Zeros(image.width),
     area |-> IF axis = 0
              THEN <<ToPlot(<<0, image.width, image.width, 0>>,
                            scale[1], origin[1]),
                     ToPlot(<<start, start, end, end>>, scale[2], origin[2])>>
              ELSE <<ToPlot(<<start, start, end, end>>, scale[2], origin[2]),
                     ToPlot(<<0, image.width, image.width, 0>>,
                            scale[1], origin[1])>>,
     start |-> start, end |-> end]

\* lines 412-417: roiWidth is clipped to the image already
FullBand(image, origin, scale, idx, roiWidth, axis) ==
    FullBandProfile(image, origin, scale,
                    FullBandStart(BandStart(idx, roiWidth), image.height,
                                  roiWidth),
                    FullBandStart(BandStart(idx, roiWidth), image.height,
                                  roiWidth) + roiWidth,
                    axis)

\* lines 410-412: image is transposed already
FullClipped(image, origin, scale, position, roiWidth, axis) ==
    FullBand(image, origin, scale,
             RDiv(RSub(position, origin[2 - axis]), scale[2 - axis]),
             Min(image.height, roiWidth), axis)

\* origin and scale are pairs of rationals (x, y), position a rational,
\* axis 0 or 1.  The result holds the returned profile and area, and the
\* band [start, end[ of rows of the (transposed) image that is averaged.
AlignedFullProfile(image, origin, scale, position, roiWidth, axis) ==
    FullClipped(IF axis = 1 THEN Transpose(image) ELSE image,
                origin, scale, position, roiWidth, axis)

(***************************************************************************)
(* ProfileToolBar.updateProfile: the profile, area and name of a ROI       *)
(***************************************************************************)
\* The value of a profile computation.  path is "full" (horizontal or
\* vertical profile), "aligned" (free line on the fast path) or "general"
\* (free line by bilinear interpolation).  profile holds the samples, or
\* bilinear the arguments given to BilinearImage.profile_line.  area is the
\* pair (x values, y values) of the ROI polygon.  The other fields are the
\* locals of updateProfile at its end.
Computed(error, path, profile, bilinear, area, profileName, xLabel, roiWidth, band, rowRange, colRange, ends) ==
    [error |-> error, path |-> path, profile |-> profile,
     bilinear |-> bilinear, area |-> area, profileName |-> profileName,
     xLabel |-> xLabel, roiWidth |-> roiWidth, band |-> band,
     rowRange |-> rowRange, colRange |-> colRange, ends |-> ends]

\* an exception raised before the profile is drawn
Failed(error, path, roiWidth, rowRange, colRange, ends) ==
    Computed(error, path, <<>>, None, <<<<>>, <<>>>>,
             [form |-> "", args |-> <<>>], "", roiWidth, <<0, 0>>,
             rowRange, colRange, ends)

\* lines 515-520 and 526-531: the name of a profile on the whole image
FullName(bounds, roiWidth, letter) ==
    IF roiWidth <= 1
    THEN [form |-> letter \o " = %g", args |-> <<Q(RMinSeq(bounds))>>]
    ELSE [form |-> letter \o " = [%g, %g]",
          args |-> <<Q(RMinSeq(bounds)),
                     Q(RSub(RMaxSeq(bounds), I2R(1)))>>]

\* lines 511-531, after the call of _alignedFullProfile that gave full
FullResult(full, roiWidth, axis) ==
    Computed("none", "full", full.profile, None,
             <<QSeq(full.area[1]), QSeq(full.area[2])>>,
             FullName(full.area[2 - axis], roiWidth,
                      IF axis = 0 THEN "Y" ELSE "X"),
             IF axis = 0 THEN "Columns" ELSE "Rows", roiWidth,
             <<full.start, full.end>>, <<0, 0>>, <<0, 0>>, <<>>)

\* lines 511-531: horizontal (axis 0) or vertical (axis 1) profile on the
\* whole image
FullProfile(data, origin, scale, roi, roiWidth, axis) ==
    FullResult(AlignedFullProfile(data, origin, scale, roi.start[2 - axis],
                                  roiWidth, axis),
               roiWidth, axis)

\* lines 624-626: m = (y1 - y0) / (x1 - x0)
Slope(startPt, endPt, len) ==
    SDiv(SSub(endPt[1], startPt[1], len), SSub(endPt[2], startPt[2], len), len)

\* lines 624-626: the name from the slope m
SlopeName(m, startPt, roiWidth, len) ==
    [error |-> "none",
     name |-> [form |-> "y = %g * x %+g ; width=%d",
               args |-> <<m, SSub(startPt[1], SMul(m, startPt[2], len), len),
                          Q(I2R(roiWidth))>>]]

\* line 622
FromName(startPt, endPt) ==
    [error |-> "none",
     name |-> [form |-> "From (%g, %g) to (%g, %g)",
               args |-> <<startPt[2], startPt[1], endPt[2], endPt[1]>>]]

\* The same with the test of the label on both coordinates at once.
LineLabelBothEqual(startPt, endPt, roiWidth, len) ==
    IF endPt[2] = startPt[2] /\ endPt[1] = startPt[1]
    THEN FromName(startPt, endPt)
    ELSE IF endPt[2] = startPt[2]
    THEN [error |-> "ZeroDivisionError", name |-> [form |-> "", args |-> <<>>]]
    ELSE SlopeName(Slope(startPt, endPt, len), startPt, roiWidth, len)

\* lines 619-626: the name of a free-line profile.  startPt and endPt are
\* (row, col) pairs, so that y0, x0 = startPt; a division by x1 - x0 = 0
\* raises.
LineLabel(startPt, endPt, roiWidth, len) ==
    IF endPt[2] = startPt[2] \/ endPt[1] = startPt[1]
    THEN FromName(startPt, endPt)
    ELSE IF endPt[2] = startPt[2]
    THEN [error |-> "ZeroDivisionError", name |-> [form |-> "", args |-> <<>>]]
    ELSE SlopeName(Slope(startPt, endPt, len), startPt, roiWidth, len)

\* The same without the exchange.
OrderAlignedKept(startPt, endPt) == <<startPt, endPt>>

\* lines 549-551: ensure startPt <= endPt on the fast path
OrderAligned(startPt, endPt) ==
    IF startPt[1] > endPt[1] \/ startPt[2] > endPt[2]
    THEN <<endPt, startPt>> ELSE <<startPt, endPt>>

\* lines 578-581: ensure startPt <= endPt on the general path, by column
\* then row
OrderGeneral(startPt, endPt) ==
    IF RLt(endPt[2], startPt[2])
       \/ (startPt[2] = endPt[2] /\ RLt(endPt[1], startPt[1]))
    THEN <<endPt, startPt>> ELSE <<startPt, endPt>>

\* lines 554-555 and 562-563:
\* (int(coord + 0.5 - 0.5 * roiWidth), int(coord + 0.5 + 0.5 * roiWidth))
BandRange(coord, roiWidth) ==
    <<Trunc(Rat(2 * coord + 1 - roiWidth, 2)),
      Trunc(Rat(2 * coord + 1 + roiWidth, 2))>>

\* The same without the last pixel of the line.
LineRangeOpen(first, last) == <<first, last>>

\* lines 556 and 561: the range [first, last + 1[ of the pixels of the line
LineRange(first, last) == <<first, last + 1>>

\* lines 557-574 and 619-627, after the call of _alignedPartialProfile
\* that gave partial and the computation of the name that gave label
AlignedResult(partial, label, origin, scale, roiWidth, rowRange, colRange, ends) ==
    IF partial.error # "none"
    THEN Failed(partial.error, "aligned", roiWidth, rowRange, colRange, ends)
    ELSE IF label.error # "none"
    THEN Failed(label.error, "aligned", roiWidth, rowRange, colRange, ends)
    ELSE Computed("none", "aligned", partial.profile, None,
                  <<QSeq(ToPlot(<<colRange[1], colRange[2],
                                  colRange[2], colRange[1]>>,
                                scale[1], origin[1])),
                    QSeq(ToPlot(<<rowRange[1], rowRange[1],
                                  rowRange[2], rowRange[2]>>,
                                scale[2], origin[2]))>>,
                  label.name, "Distance", roiWidth, <<0, 0>>,
                  rowRange, colRange, ends)

\* the integer points (row, col) as numbers of the name
LabelEnds(startPt, endPt) ==
    <<<<Q(I2R(startPt[1])), Q(I2R(startPt[2]))>>,
      <<Q(I2R(endPt[1])), Q(I2R(endPt[2]))>>>>

\* lines 557-558 and 564-565
AlignedRanges(data, origin, scale, startPt, endPt, roiWidth, rowRange, colRange, axis) ==
    AlignedResult(AlignedPartialProfile(data, rowRange, colRange, axis),
                  LineLabel(LabelEnds(startPt, endPt)[1],
                            LabelEnds(startPt, endPt)[2], roiWidth, NoLength),
                  origin, scale, roiWidth, rowRange, colRange,
                  LabelEnds(startPt, endPt))

\* lines 553-565: startPt and endPt are integer points (row, col) in order
AlignedOrdered(data, origin, scale, startPt, endPt, roiWidth) ==
    IF startPt[1] = endPt[1]
    THEN AlignedRanges(data, origin, scale, startPt, endPt, roiWidth,
                       BandRange(startPt[1], roiWidth),
                       LineRange(startPt[2], endPt[2]), 0)
    ELSE AlignedRanges(data, origin, scale, startPt, endPt, roiWidth,
                       LineRange(startPt[1], endPt[1]),
                       BandRange(startPt[2], roiWidth), 1)

\* lines 549-551, on the pair of points pts
AlignedPoints(data, origin, scale, pts, roiWidth) ==
    AlignedOrdered(data, origin, scale, pts[1], pts[2], roiWidth)

\* lines 545-574 and 619-627: free line aligned with one of the axes;
\* startPt and endPt are (row, col) pairs of rationals
AlignedLineProfile(data, origin, scale, startPt, endPt, roiWidth) ==
    AlignedPoints(data, origin, scale,
                  OrderAligned(<<Trunc(startPt[1]), Trunc(startPt[2])>>,
                               <<Trunc(endPt[1]), Trunc(endPt[2])>>),
                  roiWidth)

\* values * scale + origin on every element of an array of numbers p + q L
SToPlot(values, scale, origin, len) ==
    [k \in 1..Len(values) |->
        SAdd(SScale(scale, values[k], len), Q(origin), len)]

\* lines 583-591: the arguments of BilinearImage.profile_line
BilinearCall(startPt, endPt, roiWidth) ==
    [src |-> <<RSub(startPt[1], Rat(1, 2)), RSub(startPt[2], Rat(1, 2))>>,
     dst |-> <<RSub(endPt[1], Rat(1, 2)), RSub(endPt[2], Rat(1, 2))>>,
     linewidth |-> roiWidth]

\* lines 604-627: startPt and endPt are the extended points, dRow and dCol
\* the rotated deltas times half the width, label the name
GeneralResult(bilinear, label, origin, scale, startPt, endPt, dRow, dCol, roiWidth, len) ==
    IF label.error # "none"
    THEN Failed(label.error, "general", roiWidth, <<0, 0>>, <<0, 0>>,
                <<startPt, endPt>>)
    ELSE Computed("none", "general", <<>>, Some(bilinear),
                  <<SToPlot(<<SSub(startPt[2], dCol, len),
                              SAdd(startPt[2], dCol, len),
                              SAdd(endPt[2], dCol, len),
                              SSub(endPt[2], dCol, len)>>,
                            scale[2], origin[2], len),
                    SToPlot(<<SSub(startPt[1], dRow, len),
                              SAdd(startPt[1], dRow, len),
                              SAdd(endPt[1], dRow, len),
                              SSub(endPt[1], dRow, len)>>,
                            scale[1], origin[1], len)>>,
                  label.name, "Distance", roiWidth, <<0, 0>>,
                  <<0, 0>>, <<0, 0>>, <<startPt, endPt>>)

\* lines 619-627, on the extended points
GeneralExtended(bilinear, origin, scale, startPt, endPt, dRow, dCol, roiWidth, len) ==
    GeneralResult(bilinear, LineLabel(startPt, endPt, roiWidth, len),
                  origin, scale, startPt, endPt, dRow, dCol, roiWidth, len)

\* lines 600-605: extend the ROI with half a pixel on each end, and rotate
\* the deltas by 90 degrees: dRow, dCol = dCol, -dRow
GeneralDeltas(origin, scale, startPt, endPt, dRow, dCol, roiWidth, len) ==
    GeneralExtended(BilinearCall(startPt, endPt, roiWidth), origin, scale,
                    <<SSub(Q(startPt[1]), SScale(Rat(1, 2), dRow, len), len),
                      SSub(Q(startPt[2]), SScale(Rat(1, 2), dCol, len), len)>>,
                    <<SAdd(Q(endPt[1]), SScale(Rat(1, 2), dRow, len), len),
                      SAdd(Q(endPt[2]), SScale(Rat(1, 2), dCol, len), len)>>,
                    SScale(Rat(roiWidth, 2), dCol, len),
                    SScale(Rat(-roiWidth, 2), dRow, len),
                    roiWidth, len)

\* lines 597-598: dRow and dCol, the deltas over the length
GeneralLength(origin, scale, startPt, endPt, roiWidth, len) ==
    GeneralDeltas(origin, scale, startPt, endPt,
                  SScale(RSub(endPt[1], startPt[1]), InvLength(len), len),
                  SScale(RSub(endPt[2], startPt[2]), InvLength(len), len),
                  roiWidth, len)

\* lines 595-596: the length of the line between the ordered points
GeneralOrdered(origin, scale, startPt, endPt, roiWidth) ==
    GeneralLength(origin, scale, startPt, endPt, roiWidth,
                  Length(RAdd(RMul(RSub(endPt[1], startPt[1]),
                                   RSub(endPt[1], startPt[1])),
                              RMul(RSub(endPt[2], startPt[2]),
                                   RSub(endPt[2], startPt[2])))))

\* lines 578-581, on the pair of points pts
GeneralPoints(origin, scale, pts, roiWidth) ==
    GeneralOrdered(origin, scale, pts[1], pts[2], roiWidth)

\* lines 578-627: free line in the general case; the samples are those of
\* BilinearImage(data).profile_line
GeneralLineProfile(data, origin, scale, startPt, endPt, roiWidth) ==
    GeneralPoints(origin, scale, OrderGeneral(startPt, endPt), roiWidth)

\* lines 541-576: the choice of the path, on points (row, col)
FreeLinePath(data, origin, scale, startPt, endPt, roiWidth) ==
    IF Trunc(startPt[1]) = Trunc(endPt[1])
       \/ Trunc(startPt[2]) = Trunc(endPt[2])
    THEN AlignedLineProfile(data, origin, scale, startPt, endPt, roiWidth)
    ELSE GeneralLineProfile(data, origin, scale, startPt, endPt, roiWidth)

\* lines 533-539: convert start and end points in image coords as (row, col)
FreeLineProfile(data, origin, scale, roi, roiWidth) ==
    FreeLinePath(data, origin, scale,
                 <<RDiv(RSub(roi.start[2], origin[2]), scale[2]),
                   RDiv(RSub(roi.start[1], origin[1]), scale[1])>>,
                 <<RDiv(RSub(roi.end[2], origin[2]), scale[2]),
                   RDiv(RSub(roi.end[1], origin[1]), scale[1])>>,
                 roiWidth)

\* lines 511-627, for the width roiWidth of line 508
ProfileOfWidth(imageData, roi, roiWidth) ==
    IF roi.mode = "X"
    THEN FullProfile(imageData.data, imageData.origin, imageData.scale,
                     roi, roiWidth, 0)
    ELSE IF roi.mode = "Y"
    THEN FullProfile(imageData.data, imageData.origin, imageData.scale,
                     roi, roiWidth, 1)
    ELSE FreeLineProfile(imageData.data, imageData.origin, imageData.scale,
                         roi, roiWidth)

\* The same with the value of the spin box taken as the width.
ComputeProfileOfSpin(imageData, roi, spin) ==
    ProfileOfWidth(imageData, roi, spin)

\* lines 505-627: imageData is the active image [data, origin, scale],
\* roi the stored ROI [start, end, mode], spin the value of the spin box
ComputeProfile(imageData, roi, spin) ==
    ProfileOfWidth(imageData, roi, Max(1, spin))

(***************************************************************************)
(* The plot and the profile window (silx Plot): overlay items and curves   *)
(* are kept by legend                                                      *)
(***************************************************************************)
POLYGON_LEGEND == "__ProfileToolBar_ROI_Polygon"

\* Plot.remove(legend, kind='item')
RemoveItem(its, legend) == SelectSeq(its, LAMBDA it : it.legend # legend)

\* Plot.addItem(..., replace=False): an item of the same legend is replaced
AddItem(its, item) == Append(RemoveItem(its, item.legend), item)

\* Plot.addCurve: a curve of the same legend is replaced
AddCurve(crvs, curve) ==
    Append(SelectSeq(crvs, LAMBDA c : c.legend # curve.legend), curve)

(***************************************************************************)
(* ProfileToolBar.updateProfile                                            *)
(***************************************************************************)
\* The same without profileWindow.clear().
CleanViewCurvesKept(its, crvs) ==
    [items |-> RemoveItem(its, POLYGON_LEGEND), curves |-> crvs]

\* The same without plotWindow.remove().
CleanViewPolygonKept(its, crvs) == [items |-> its, curves |-> <<>>]

\* lines 491-496: clean previous profile area, and previous curve
CleanView(its, crvs) ==
    [items |-> RemoveItem(its, POLYGON_LEGEND), curves |-> <<>>]

\* lines 629-636: the curve given to profileWindow.addCurve; its x values
\* are 0 .. len(profile) - 1
ProfileCurve(c, color) ==
    [legend |-> c.profileName, profile |-> c.profile, bilinear |-> c.bilinear,
     xlabel |-> c.xLabel, color |-> color]

\* lines 638-642: the item given to plotWindow.addItem
PolygonItem(c, color) ==
    [legend |-> POLYGON_LEGEND, x |-> c.area[1], y |-> c.area[2],
     color |-> color, shape |-> "polygon", fill |-> TRUE]

\* lines 629-644: the view once the profile c is computed, from the
\* cleaned view clean
DrawnView(clean, c, color) ==
    IF c.error # "none"
    THEN [items |-> clean.items, curves |-> clean.curves,
          graphTitle |-> None, raised |-> c.error, ret |-> Some(c)]
    ELSE [items |-> AddItem(clean.items, PolygonItem(c, color)),
          curves |-> AddCurve(clean.curves, ProfileCurve(c, color)),
          graphTitle |-> Some(c.profileName), raised |-> "none",
          ret |-> Some(c)]

\* lines 498-644, from the cleaned view clean
CleanedView(clean, roi, image, spin, color) ==
    IF roi = None \/ image = None
    THEN [items |-> clean.items, curves |-> clean.curves,
          graphTitle |-> None, raised |-> "none", ret |-> None]
    ELSE DrawnView(clean, ComputeProfile(image[1], roi[1], spin), color)

\* The plot, the profile window and the outcome after updateProfile run on
\* ROI roi (None or Some), active image image (None or Some), spin box
\* value spin, overlay color color, items its and curves crvs.
UpdatedView(roi, image, spin, color, its, crvs) ==
    CleanedView(CleanView(its, crvs), roi, image, spin, color)

\* updateProfile called at the end of a handler that leaves the toolbar
\* with ROI roi, spin box value spin and overlay color color
RunUpdateProfile(roi, spin, color) ==
    \E view \in {UpdatedView(roi, activeImage, spin, color, items, curves)} :
        /\ items' = view.items
        /\ curves' = view.curves
        /\ graphTitle' = view.graphTitle
        /\ raised' = view.raised
        /\ ret' = view.ret

UpdateProfile ==
    /\ RunUpdateProfile(roiInfo, lineWidth, overlayColor)
    /\ lastOp' = "updateProfile"
    /\ UNCHANGED <<roiInfo, overlayColor, lineWidth, checkedAction,
                   connected, activeImage, call>>
    /\ UNCHANGED <<meshVars, infoVars, legendVars>>

(***************************************************************************)
(* Handlers of ProfileToolBar                                              *)
(***************************************************************************)
\* lines 311-313: the spin box emits valueChanged when its value changes
LineWidthSpinBoxValueChangedSlot(value) ==
    /\ value # lineWidth
    /\ lineWidth' = value
    /\ RunUpdateProfile(roiInfo, value, overlayColor)
    /\ lastOp' = "updateProfile"
    /\ UNCHANGED <<roiInfo, overlayColor, checkedAction, connected,
                   activeImage, call>>
    /\ UNCHANGED <<meshVars, infoVars, legendVars>>

\* lines 378-381: overlayColor setter
SetOverlayColor(color) ==
    /\ overlayColor' = color
    /\ RunUpdateProfile(roiInfo, lineWidth, color)
    /\ lastOp' = "updateProfile"
    /\ UNCHANGED <<roiInfo, lineWidth, checkedAction, connected,
                   activeImage, call>>
    /\ UNCHANGED <<meshVars, infoVars, legendVars>>

\* lines 383-386
ClearProfile ==
    /\ roiInfo' = None
    /\ RunUpdateProfile(None, lineWidth, overlayColor)
    /\ lastOp' = "clearProfile"
    /\ UNCHANGED <<overlayColor, lineWidth, checkedAction, connected,
                   activeImage, call>>
    /\ UNCHANGED <<meshVars, infoVars, legendVars>>

\* lines 358-366: the projection mode of the checked action, None for the
\* browse action
LineProjectionMode(action) ==
    IF action = "hLine" THEN Some("X")
    ELSE IF action = "vLine" THEN Some("Y")
    ELSE IF action = "line" THEN Some("D")
    ELSE None

\* lines 352-371: sigPlotSignal delivers event to the slot while it is
\* connected; event is [event, points]
PlotWindowSlot(event) ==
    /\ connected > 0
    /\ IF event.event \notin {"drawingProgress", "drawingFinished"}
          \/ LineProjectionMode(checkedAction) = None
       THEN UNCHANGED <<roiInfo, items, curves, graphTitle, raised, ret,
                        lastOp>>
       ELSE LET roi == Some([start |-> event.points[1],
                             end |-> event.points[2],
                             mode |-> LineProjectionMode(checkedAction)[1]])
            IN  /\ roiInfo' = roi
                /\ RunUpdateProfile(roi, lineWidth, overlayColor)
                /\ lastOp' = "_plotWindowSlot"
    /\ UNCHANGED <<overlayColor, lineWidth, checkedAction, connected,
                   activeImage, call>>
    /\ UNCHANGED <<meshVars, infoVars, legendVars>>

DrawingActions == {"hLine", "vLine", "line"}

\* The same without the disconnection.
DisconnectedNever(action, count) == count

\* lines 321-323, 332-334, 343-345: the action is toggled off with count
\* connections of the slot; the disconnection of a drawing action removes
\* one if there is one
Disconnected(action, count) ==
    IF action \in DrawingActions
    THEN IF count > 0 THEN count - 1 ELSE 0
    ELSE count

\* lines 315-350 and 286-293: the user checks another action of the
\* exclusive group: the checked action is toggled off, which disconnects
\* the slot if it is a drawing action, then the new one is toggled on,
\* which connects the slot if it is a drawing action.  Disconnecting a slot
\* that is not connected raises.
ActionToggled(action) ==
    /\ action # checkedAction
    /\ checkedAction' = action
    /\ LET off == Disconnected(checkedAction, connected)
            on == IF action \in DrawingActions THEN off + 1 ELSE off
       IN  /\ connected' = on
           /\ raised' = IF checkedAction \in DrawingActions /\ connected = 0
                         THEN "TypeError" ELSE "none"
    /\ lastOp' = "toggled"
    /\ UNCHANGED <<roiInfo, overlayColor, lineWidth, activeImage, items,
                   curves, graphTitle, call, ret>>
    /\ UNCHANGED <<meshVars, infoVars, legendVars>>

\* the plot gets another active image, or none
SetActiveImage(image) ==
    /\ image # activeImage
    /\ activeImage' = image
    /\ lastOp' = "setActiveImage"
    /\ UNCHANGED <<roiInfo, overlayColor, lineWidth, checkedAction,
                   connected, items, curves, graphTitle, raised, call, ret>>
    /\ UNCHANGED <<meshVars, infoVars, legendVars>>

(***************************************************************************)
(* The toolbar after ProfileToolBar.__init__                               *)
(***************************************************************************)
InitToolBar ==
    /\ roiInfo = None
    /\ overlayColor = "red"
    /\ lineWidth = 1
    /\ checkedAction = "browse"
    /\ connected = 0
    /\ items = <<>>
    /\ curves = <<>>
    /\ graphTitle = None
    /\ raised = "none"

(***************************************************************************)
(* Direct calls of _alignedPartialProfile on every image and range         *)
(***************************************************************************)
Ranges == ((-IndexBelow)..MaxIndex) \X ((-IndexBelow)..MaxIndex)

InitPartial ==
    /\ InitToolBar
    /\ activeImage = None
    /\ lastOp = "init"
    /\ call \in {Some([image |-> image, rowRange |-> rowRange,
                        colRange |-> colRange, axis |-> axis]) :
                    image \in Arrays, rowRange \in Ranges,
                    colRange \in Ranges, axis \in {0, 1}}
    /\ ret = None
    /\ NoItem /\ NoPositionInfo /\ NoLegends

CallAlignedPartialProfile ==
    /\ ret = None
    /\ ret' = Some(AlignedPartialProfile(call[1].image, call[1].rowRange,
                                          call[1].colRange, call[1].axis))
    /\ lastOp' = "_alignedPartialProfile"
    /\ UNCHANGED <<toolbarVars, call>>
    /\ UNCHANGED <<meshVars, infoVars, legendVars>>

NextPartial == CallAlignedPartialProfile

SpecPartial == InitPartial /\ [][NextPartial]_vars

(***************************************************************************)
(* updateProfile on every stored ROI, active image and width               *)
(***************************************************************************)
PlotCoords == {Rat(n, 2) : n \in (-CoordBelow)..MaxCoord}

PlotPoints == PlotCoords \X PlotCoords

\* origin (ox, oy) and scale (sx, sy) of an image in the plot
Geometries ==
    {[origin |-> <<I2R(0), I2R(0)>>, scale |-> <<I2R(1), I2R(1)>>],
     [origin |-> <<Rat(1, 2), Rat(-1, 2)>>, scale |-> <<Rat(1, 2), I2R(1)>>]}

Images == {[data |-> a, origin |-> g.origin, scale |-> g.scale] :
             a \in Arrays, g \in Geometries}

\* horizontal and vertical ROIs only use their first point
Rois ==
    {[start |-> p, end |-> q, mode |-> "D"] : p \in PlotPoints, q \in PlotPoints}
    \cup {[start |-> p, end |-> p, mode |-> m] :
             p \in PlotPoints, m \in {"X", "Y"}}

\* the images of the larger sizes that are not square
ProfileImages == {i \in Images : /\ i.data.height >= MaxDim - 1
                                  /\ i.data.width >= MaxDim - 1
                                  /\ i.data.height # i.data.width}

InitProfile ==
    /\ roiInfo \in {Some(r) : r \in Rois}
    /\ overlayColor = "red"
    /\ lineWidth \in 0..MaxWidth
    /\ checkedAction = "browse"
    /\ connected = 0
    /\ activeImage \in {Some(i) : i \in ProfileImages}
    /\ items = <<>>
    /\ curves = <<>>
    /\ graphTitle = None
    /\ raised = "none"
    /\ lastOp = "init"
    /\ call = None
    /\ ret = None
    /\ NoItem /\ NoPositionInfo /\ NoLegends

NextProfile == lastOp = "init" /\ UpdateProfile

SpecProfile == InitProfile /\ [][NextProfile]_vars

(***************************************************************************)
(* The toolbar in use                                                      *)
(***************************************************************************)
Colors == {"red", "blue"}

\* points of the plot where the drawing starts and ends
DrawPoints == {<<Rat(1, 2), I2R(0)>>, <<Rat(1, 2), Rat(3, 2)>>,
               <<Rat(3, 2), I2R(1)>>}

PlotEvents ==
    {[event |-> e, points |-> <<p, q>>] :
        e \in {"drawingProgress", "drawingFinished"},
        p \in DrawPoints, q \in DrawPoints}
    \cup {[event |-> "mouseMoved", points |-> <<>>]}

\* the images that the plot shows
ShownImages ==
    {[data |-> TestArray(2, 2), origin |-> g.origin, scale |-> g.scale] :
        g \in Geometries}

Init ==
    /\ InitToolBar
    /\ activeImage = None
    /\ lastOp = "init"
    /\ call = None
    /\ ret = None
    /\ NoItem /\ NoPositionInfo /\ NoLegends

Next ==
    \/ \E event \in PlotEvents : PlotWindowSlot(event)
    \/ \E value \in 0..MaxWidth : LineWidthSpinBoxValueChangedSlot(value)
    \/ \E color \in Colors : SetOverlayColor(color)
    \/ ClearProfile
    \/ UpdateProfile
    \/ \E action \in DrawingActions \cup {"browse"} : ActionToggled(action)
    \/ \E image \in {None} \cup {Some(i) : i \in ShownImages} :
          SetActiveImage(image)

Spec == Init /\ [][Next]_vars

(***************************************************************************)
(* Properties of _alignedPartialProfile                                    *)
(***************************************************************************)
PartialReturned == lastOp = "_alignedPartialProfile" /\ ret # None

ValidRanges(c) == c.rowRange[1] < c.rowRange[2] /\ c.colRange[1] < c.colRange[2]

ProfileRangeOf(c) == IF c.axis = 0 THEN c.colRange ELSE c.rowRange

OrthogonalRangeOf(c) == IF c.axis = 0 THEN c.rowRange ELSE c.colRange

\* image size along the profile, and along the range that is averaged
ProfileExtentOf(c) == IF c.axis = 0 THEN c.image.width ELSE c.image.height

OrthogonalExtentOf(c) == IF c.axis = 0 THEN c.image.height ELSE c.image.width

\* C1: for ranges with min < max, wherever they lie, _alignedPartialProfile
\* does not fail and returns abs(profileRange[1] - profileRange[0]) samples.
C1_PartialLength ==
    (PartialReturned /\ ValidRanges(call[1])) =>
        /\ ret[1].error = "none"
        /\ Len(ret[1].profile) =
             Abs(ProfileRangeOf(call[1])[2] - ProfileRangeOf(call[1])[1])

\* a profile range that leaves the image on both sides, from a negative bound
C1_Witness ==
    /\ PartialReturned /\ ValidRanges(call[1])
    /\ ProfileRangeOf(call[1])[1] < 0
    /\ ProfileRangeOf(call[1])[2] > ProfileExtentOf(call[1])
    /\ ret[1].error = "none"
    /\ Len(ret[1].profile) > ProfileExtentOf(call[1])

\* the pixels of line coord of the image that lie in the orthogonal range
LinePixels(c, coord) ==
    LET lo == Max(0, OrthogonalRangeOf(c)[1])
        hi == Min(OrthogonalExtentOf(c), OrthogonalRangeOf(c)[2]) - 1
    IN  {IF c.axis = 0 THEN <<o, coord>> ELSE <<coord, o>> : o \in lo..hi}

RECURSIVE SumPixels(_, _)
SumPixels(image, pixels) ==
    IF pixels = {} THEN 0
    ELSE LET px == CHOOSE q \in pixels : TRUE
         IN  image.pix[px[1]][px[2]] + SumPixels(image, pixels \ {px})

\* C2: sample k is the mean of the in-image pixels of line profileRange[0]+k
\* over the orthogonal range when that line is in the image and the
\* orthogonal range meets the image, and 0 in every other case.
C2_PartialSamples ==
    (PartialReturned /\ ValidRanges(call[1]) /\ ret[1].error = "none") =>
        \A k \in 1..Len(ret[1].profile) :
            LET c == call[1]
                coord == ProfileRangeOf(c)[1] + k - 1
                pixels == LinePixels(c, coord)
            IN  IF coord >= 0 /\ coord < ProfileExtentOf(c) /\ pixels # {}
                THEN ret[1].profile[k] =
                        Rat(SumPixels(c.image, pixels), Cardinality(pixels))
                ELSE ret[1].profile[k] = I2R(0)

(***************************************************************************)
(* Properties of updateProfile on horizontal and vertical ROIs             *)
(***************************************************************************)
ProfileUpdated ==
    lastOp = "updateProfile" /\ roiInfo # None /\ activeImage # None

FullUpdated == ProfileUpdated /\ roiInfo[1].mode \in {"X", "Y"}

\* the image as _alignedFullProfile reduces it: transposed for mode "Y"
FullImage == IF roiInfo[1].mode = "Y" THEN Transpose(activeImage[1].data)
             ELSE activeImage[1].data

FullAxis == IF roiInfo[1].mode = "Y" THEN 1 ELSE 0

\* idx = (position - origin[1 - axis]) / scale[1 - axis]
FullIdx ==
    RDiv(RSub(roiInfo[1].start[2 - FullAxis], activeImage[1].origin[2 - FullAxis]),
         activeImage[1].scale[2 - FullAxis])

\* the width of the band: the spin box value raised to 1 and cut to the
\* image extent
FullWidth == Min(FullImage.height, Max(1, lineWidth))

\* the mean of rows [start, start + width[ of FullImage in every column
BandMean(start, width) ==
    [k \in 1..FullImage.width |->
        Rat(SumPixels(FullImage, {<<r, k - 1>> : r \in start..(start + width - 1)}),
            width)]

\* C3 as claimed: when the band [start, start + width[ with
\* start = round(idx + 0.5 - width/2) lies in the image, the profile has the
\* length of the image along the profile axis and is the mean of that band.
C3_RoundedBand ==
    LET start == Round(RAdd(FullIdx, Rat(1 - FullWidth, 2)))
    IN  (FullUpdated /\ 0 <= start /\ start + FullWidth <= FullImage.height) =>
            /\ Len(curves[1].profile) = FullImage.width
            /\ curves[1].profile = BandMean(start, FullWidth)

\* C3 amended: when the band [start, start + width[ with
\* start = int(int(idx) + 0.5 - width/2), int truncating toward zero, lies
\* in the image, the profile has the length of the image along the profile
\* axis and is the mean of that band.
C3_TruncatedBand ==
    LET start == Trunc(RAdd(I2R(Trunc(FullIdx)), Rat(1 - FullWidth, 2)))
    IN  (FullUpdated /\ 0 <= start /\ start + FullWidth <= FullImage.height) =>
            /\ Len(curves[1].profile) = FullImage.width
            /\ curves[1].profile = BandMean(start, FullWidth)

\* a vertical profile of width 2 on a line between two pixel borders, whose
\* band lies in the image
C3_Witness ==
    /\ FullUpdated /\ roiInfo[1].mode = "Y" /\ FullWidth = 2
    /\ FullIdx[2] = 2
    /\ Trunc(RAdd(I2R(Trunc(FullIdx)), Rat(1 - FullWidth, 2))) = 0
    /\ Round(RAdd(FullIdx, Rat(1 - FullWidth, 2))) = 1
    /\ FullImage.height = 3
    /\ curves[1].profile = BandMean(0, 2)

\* C4: when the requested band lies entirely outside the image, the
\* profile is all zero and has the length of the image along the profile
\* axis.
C4_ZeroOutside ==
    LET start == BandStart(FullIdx, FullWidth)
    IN  (FullUpdated /\ (start + FullWidth <= 0 \/ start >= FullImage.height)) =>
            curves[1].profile = Zeros(FullImage.width)

\* C5: the band [start, end[ that _alignedFullProfile averages and reports
\* has 1 <= end - start <= extent and 0 <= start < end <= extent.
C5_BandInImage ==
    FullUpdated =>
        LET start == ret[1].band[1]
            end == ret[1].band[2]
            extent == FullImage.height
        IN  /\ 1 <= end - start /\ end - start <= extent
            /\ 0 <= start /\ start < end /\ end <= extent
            /\ items[1].y = IF FullAxis = 0
                 THEN QSeq(ToPlot(<<start, start, end, end>>,
                          activeImage[1].scale[2], activeImage[1].origin[2]))
                 ELSE items[1].y
            /\ items[1].x = IF FullAxis = 1
                 THEN QSeq(ToPlot(<<start, start, end, end>>,
                          activeImage[1].scale[2], activeImage[1].origin[2]))
                 ELSE items[1].x

\* a width above the image extent, on a line below the origin
C5_Witness ==
    /\ FullUpdated /\ lineWidth > FullImage.height /\ RLt(FullIdx, I2R(0))
    /\ ret[1].band = <<0, FullImage.height>>

(***************************************************************************)
(* Properties of updateProfile on free-line ROIs                           *)
(***************************************************************************)
LineUpdated == ProfileUpdated /\ roiInfo[1].mode = "D"

PolygonItems == SelectSeq(items, LAMBDA it : it.legend = POLYGON_LEGEND)

SameProfile(a, b) ==
    /\ a.error = b.error
    /\ a.profile = b.profile
    /\ a.bilinear = b.bilinear
    /\ a.area = b.area
    /\ a.profileName = b.profileName

\* C7: the two orders of the end points of a free line give the same
\* profile, the same ROI polygon and the same name, on both paths.
C7_OrderIndependent ==
    LineUpdated =>
        SameProfile(ret[1],
                    ComputeProfile(activeImage[1],
                                   [start |-> roiInfo[1].end,
                                    end |-> roiInfo[1].start, mode |-> "D"],
                                   lineWidth))

\* a line on the general path drawn from right to left
C7_Witness ==
    /\ LineUpdated /\ raised = "none"
    /\ ret[1].path = "general"
    /\ RLt(roiInfo[1].end[1], roiInfo[1].start[1])
    /\ ret[1].bilinear[1].src[2] = RSub(RDiv(RSub(roiInfo[1].end[1],
                                                  activeImage[1].origin[1]),
                                             activeImage[1].scale[1]),
                                        Rat(1, 2))
    /\ Len(PolygonItems) = 1

\* C8: the name of a free-line profile never divides by zero; it has the
\* 'From' form exactly on the fast path and the 'y = m * x + b' form exactly
\* on the general path, where the two end points have different x.
C8_LabelForm ==
    LineUpdated =>
        /\ raised # "ZeroDivisionError"
        /\ raised = "none" =>
              /\ ret[1].path = "aligned" <=>
                    graphTitle[1].form = "From (%g, %g) to (%g, %g)"
              /\ ret[1].path = "general" <=>
                    graphTitle[1].form = "y = %g * x %+g ; width=%d"
              /\ ret[1].path = "general" =>
                    ret[1].ends[1][2] # ret[1].ends[2][2]

\* a line of irrational length on the general path
C8_Witness ==
    /\ LineUpdated /\ raised = "none"
    /\ ret[1].path = "general"
    /\ ret[1].ends[1][2].q # I2R(0)
    /\ graphTitle[1].form = "y = %g * x %+g ; width=%d"

(***************************************************************************)
(* Properties of the toolbar in use                                        *)
(***************************************************************************)
\* the operations that end with updateProfile
Updating == {"updateProfile", "clearProfile", "_plotWindowSlot"}

\* C9: when updateProfile runs without active image or without stored ROI,
\* it leaves no curve in the profile window and no ROI polygon in the plot,
\* and it does not change the stored ROI.
C9_NoProfile ==
    [][(lastOp' \in Updating /\ (roiInfo' = None \/ activeImage' = None)) =>
          /\ curves' = <<>> /\ PolygonItems' = <<>> /\ graphTitle' = None
          /\ raised' = "none"
          /\ lastOp' = "updateProfile" => roiInfo' = roiInfo]_vars

\* updateProfile has run on a stored ROI, a width of 2 and no active image
C9_Witness ==
    /\ lastOp = "updateProfile" /\ roiInfo # None /\ activeImage = None
    /\ lineWidth = 2 /\ ret = None
    /\ curves = <<>> /\ PolygonItems = <<>>

\* the curve and the polygon of the computed profile c
ViewOf(c, color) ==
    IF c.error # "none" THEN [items |-> <<>>, curves |-> <<>>]
    ELSE [items |-> <<PolygonItem(c, color)>>,
          curves |-> <<ProfileCurve(c, color)>>]

\* the curve and the polygon that the stored ROI gives on the active image
ExpectedView ==
    IF roiInfo = None \/ activeImage = None
    THEN [items |-> <<>>, curves |-> <<>>]
    ELSE ViewOf(ComputeProfile(activeImage[1], roiInfo[1], lineWidth),
                overlayColor)

\* C10: the plot holds at most one ROI polygon and the profile window at
\* most one curve, and after every handler that ends with updateProfile
\* they are those of the stored ROI.
C10_SingleOverlay ==
    /\ Len(PolygonItems) <= 1
    /\ Len(curves) <= 1
    /\ lastOp \in Updating =>
          [items |-> PolygonItems, curves |-> curves] = ExpectedView

\* a ROI drawn, then the width and the color changed: one polygon, one curve
C10_Witness ==
    /\ lastOp = "updateProfile" /\ roiInfo # None
    /\ lineWidth = 2 /\ overlayColor = "blue"
    /\ Len(PolygonItems) = 1 /\ PolygonItems[1].color = "blue"
    /\ Len(curves) = 1 /\ curves[1].color = "blue"

(***************************************************************************)
(* Properties of the band and of the polygon of a free-line ROI            *)
(***************************************************************************)
AlignedUpdated == LineUpdated /\ ret[1].path = "aligned"

\* the line of the fast path lies along a row: startPt[0] == endPt[0]
RowAligned == ret[1].ends[1][1] = ret[1].ends[2][1]

\* C18: on the fast path of a free line, the band given to
\* _alignedPartialProfile has exactly the requested width, whatever the
\* integer coordinate of the line.
C18_BandWidth ==
    AlignedUpdated =>
        IF RowAligned
        THEN ret[1].rowRange[2] - ret[1].rowRange[1] = ret[1].roiWidth
        ELSE ret[1].colRange[2] - ret[1].colRange[1] = ret[1].roiWidth

GeneralUpdated == LineUpdated /\ ret[1].path = "general" /\ raised = "none"

\* a point (x, y) of the plot in image coordinates (row, col)
ToImage(pt) ==
    <<RDiv(RSub(pt[2], activeImage[1].origin[2]), activeImage[1].scale[2]),
      RDiv(RSub(pt[1], activeImage[1].origin[1]), activeImage[1].scale[1])>>

\* the length of the stored line in image coordinates
RoiLength ==
    Length(RAdd(RMul(RSub(ToImage(roiInfo[1].end)[1],
                          ToImage(roiInfo[1].start)[1]),
                     RSub(ToImage(roiInfo[1].end)[1],
                          ToImage(roiInfo[1].start)[1])),
                RMul(RSub(ToImage(roiInfo[1].end)[2],
                          ToImage(roiInfo[1].start)[2]),
                     RSub(ToImage(roiInfo[1].end)[2],
                          ToImage(roiInfo[1].start)[2]))))

\* corner k of the ROI polygon as (row, col), by col = (x - ox) / sx and
\* row = (y - oy) / sy
Corner(k) ==
    <<SScale(RDiv(I2R(1), activeImage[1].scale[2]),
             SSub(ret[1].area[2][k], Q(activeImage[1].origin[2]), RoiLength),
             RoiLength),
      SScale(RDiv(I2R(1), activeImage[1].scale[1]),
             SSub(ret[1].area[1][k], Q(activeImage[1].origin[1]), RoiLength),
             RoiLength)>>

\* the middle of two points, their difference and the dot product
Middle(a, b) ==
    <<SScale(Rat(1, 2), SAdd(a[1], b[1], RoiLength), RoiLength),
      SScale(Rat(1, 2), SAdd(a[2], b[2], RoiLength), RoiLength)>>

Delta(a, b) == <<SSub(b[1], a[1], RoiLength), SSub(b[2], a[2], RoiLength)>>

Dot(u, v) ==
    SAdd(SMul(u[1], v[1], RoiLength), SMul(u[2], v[2], RoiLength), RoiLength)

\* the polygon, taken back to image coordinates, is the rectangle of width
\* roiWidth around the line extended by half a pixel at each end
RectangleAroundLine ==
    /\ Middle(Corner(1), Corner(2)) = ret[1].ends[1]
    /\ Middle(Corner(4), Corner(3)) = ret[1].ends[2]
    /\ Delta(Corner(1), Corner(2)) = Delta(Corner(4), Corner(3))
    /\ Dot(Delta(Corner(1), Corner(2)), Delta(ret[1].ends[1], ret[1].ends[2]))
           = Q(I2R(0))
    /\ Dot(Delta(Corner(1), Corner(2)), Delta(Corner(1), Corner(2)))
           = Q(I2R(ret[1].roiWidth * ret[1].roiWidth))

\* the polygon, taken back to image coordinates, is the rectangle of the
\* row and column ranges of the fast path
RectangleOfRanges ==
    /\ <<Corner(1)[2], Corner(2)[2], Corner(3)[2], Corner(4)[2]>>
          = QSeq(<<I2R(ret[1].colRange[1]), I2R(ret[1].colRange[2]),
                   I2R(ret[1].colRange[2]), I2R(ret[1].colRange[1])>>)
    /\ <<Corner(1)[1], Corner(2)[1], Corner(3)[1], Corner(4)[1]>>
          = QSeq(<<I2R(ret[1].rowRange[1]), I2R(ret[1].rowRange[1]),
                   I2R(ret[1].rowRange[2]), I2R(ret[1].rowRange[2])>>)

\* C19: the ROI polygon of a free line is in plot coordinates under the
\* mapping plot_x = ox + col * sx and plot_y = oy + row * sy, on the
\* general path as on the fast path, for every origin and scale.
C19_PolygonMapping ==
    /\ GeneralUpdated => RectangleAroundLine
    /\ (AlignedUpdated /\ raised = "none") => RectangleOfRanges

(***************************************************************************)
(* silx.gui.plot3d.items.mesh: 3D items that hold one mesh of the scene.   *)
(*                                                                         *)
(* Numbers.  Coordinates are numbers p + q * L of a field Q(L) given by     *)
(* len = [len2, root] as above (L = sqrt(3) for angles that are multiples   *)
(* of 30 degrees, L = the diagonal for a box).  An angle is modelled by     *)
(* its cosine and sine, records [cos, sin]: the code reads an angle by      *)
(* numpy.cos and numpy.sin only.  float32 rounding is not modelled.         *)
(***************************************************************************)
\* a vector (x, y, z) minus another, their sum, and numpy.cross
VSub(u, v, len) == [i \in 1..3 |-> SSub(u[i], v[i], len)]

VAdd(u, v, len) == [i \in 1..3 |-> SAdd(u[i], v[i], len)]

Cross(u, v, len) ==
    [i \in 1..3 |->
        SSub(SMul(u[(i % 3) + 1], v[((i + 1) % 3) + 1], len),
             SMul(u[((i + 1) % 3) + 1], v[(i % 3) + 1], len), len)]

\* the elements of a 2D array (a sequence of rows of one length), in
\* order (numpy's C order)
Flatten(rows) ==
    IF rows = <<>> THEN <<>>
    ELSE [j \in 1..(Len(rows) * Len(rows[1])) |->
            rows[((j - 1) \div Len(rows[1])) + 1][((j - 1) % Len(rows[1])) + 1]]

\* flat.reshape((-1, 3)) of a flat array whose size is a multiple of 3
Reshape3(flat) ==
    [r \in 1..(Len(flat) \div 3) |->
        <<flat[3 * r - 2], flat[3 * r - 1], flat[3 * r]>>]

\* numpy.tile(a, (n, 1)) of a 2D array: the rows of a, n times
TileRows(a, n) ==
    [r \in 1..(n * Len(a)) |-> a[((r - 1) % Len(a)) + 1]]

\* the sequence row, k times in a row
Repeat(row, k) ==
    [j \in 1..(k * Len(row)) |-> row[((j - 1) % Len(row)) + 1]]

\* The same tiling along the rows, numpy.tile(a, (k, 1)).
TileColsAsRows(a, k) == TileRows(a, k)

\* numpy.tile(a, (1, k)) of a 2D array: every row of a, k times in a row
TileCols(a, k) == [r \in 1..Len(a) |-> Repeat(a[r], k)]

\* a rim point: [radius * cos(angle), radius * sin(angle), z]
Rim(radius, angle, z, len) ==
    <<SMul(radius, angle.cos, len), SMul(radius, angle.sin, len), z>>

\* lines 198-211: the six corners c1 .. c6 of the wedge between the
\* angles a and b, for low = -height/2 and high = height/2
Corners(radius, low, high, a, b, len) ==
    [k \in 1..6 |->
        IF k \in {1, 6}
        THEN <<Q(I2R(0)), Q(I2R(0)), IF k = 1 THEN low ELSE high>>
        ELSE Rim(radius, IF k \in {2, 4} THEN a ELSE b,
                 IF k <= 3 THEN low ELSE high, len)]

\* The same with the caps in the order (apex, rim-i, rim-i+1) for the
\* bottom and (apex, rim-i+1, rim-i) for the top.
WedgeApexFirst(c) ==
    <<c[1], c[2], c[3],
      c[2], c[3], c[4],
      c[3], c[5], c[4],
      c[6], c[5], c[4]>>

\* lines 213-216: volume[i], the 12 vertices of the corners c
Wedge(c) ==
    <<c[1], c[3], c[2],
      c[2], c[3], c[4],
      c[3], c[5], c[4],
      c[4], c[5], c[6]>>

\* lines 218-229: the rows of normal[i] with flat faces; <<a, b, d, e>>
\* stands for numpy.cross(ca - cb, cd - ce)
FlatEdges ==
    <<<<3, 1, 2, 1>>, <<2, 3, 1, 3>>, <<1, 2, 3, 2>>,
      <<3, 2, 4, 2>>, <<4, 3, 2, 3>>, <<2, 4, 3, 4>>,
      <<5, 3, 4, 3>>, <<4, 5, 3, 5>>, <<3, 4, 5, 4>>,
      <<5, 4, 6, 4>>, <<6, 5, 5, 5>>, <<4, 6, 5, 6>>>>

\* lines 231-238: the rows of normal[i] without flat faces; <<a, b>>
\* stands for ca - cb
SmoothEdges ==
    <<<<3, 1, 2, 1>>, <<2, 3, 1, 3>>, <<1, 2, 3, 2>>,
      <<2, 1>>, <<3, 1>>, <<4, 6>>,
      <<3, 1>>, <<5, 6>>, <<4, 6>>,
      <<5, 4, 6, 4>>, <<6, 5, 5, 5>>, <<4, 6, 5, 6>>>>

\* one row of normal[i]
Normal(c, e, len) ==
    IF Len(e) = 2 THEN VSub(c[e[1]], c[e[2]], len)
    ELSE Cross(VSub(c[e[1]], c[e[2]], len), VSub(c[e[3]], c[e[4]], len), len)

\* lines 217-238: normal[i] for the corners c
Normals(c, flatFaces, len) ==
    [k \in 1..12 |->
        Normal(c, IF flatFaces THEN FlatEdges[k] ELSE SmoothEdges[k], len)]

\* the draw modes that primitives.Mesh3D recognizes
DrawModes ==
    {"points", "lines", "line_strip", "loop", "triangles", "triangle_strip",
     "fan"}

\* primitives.Mesh3D(position, color, normal, mode=mode, copy=copy), for a
\* recognized mode: the buffers are stored as given
Mesh3D(position, color, normal, mode, copy) ==
    [type |-> "Mesh3D", position |-> position, color |-> color,
     normal |-> normal, mode |-> mode]

\* The same keeping the children of the scene primitive.
ChildrenKept(kids) == kids

\* lines 72 and 171: self._getScenePrimitive().children = []
ChildrenCleared(kids) == <<>>

\* The outcome of a set call: the exception that left it, whether _mesh
\* was assigned and to what, the children of the scene primitive, and
\* whether sigItemChanged was emitted.
Outcome(error, assigned, value, kids, signal) ==
    [raised |-> error, assigned |-> assigned, mesh |-> value,
     children |-> kids, emitted |-> signal]

\* an exception leaves the call after the children were reset to kids
Raises(error, kids) == Outcome(error, FALSE, PyNone, kids, None)

\* lines 74-75 and 173-174: no position
SetEmpty(kids) == Outcome("none", TRUE, PyInt(0), kids, Some("DATA"))

\* lines 77-81 and 250-254: the mesh built is stored and appended
SetMesh(built, kids) ==
    Outcome("none", TRUE, built, Append(kids, built), Some("DATA"))

\* lines 72-81: Mesh.setData on an item whose scene primitive has the
\* children kids; position is None or Some(array)
MeshSetData(position, color, normal, mode, copy, kids) ==
    IF position = None \/ Len(position[1]) = 0
    THEN SetEmpty(ChildrenCleared(kids))
    ELSE IF mode \notin DrawModes
    THEN Raises("UnsupportedDrawMode", ChildrenCleared(kids))
    ELSE SetMesh(Mesh3D(position[1], color, normal, mode, copy),
                 ChildrenCleared(kids))

\* lines 198-238: volume[i] and normal[i] of the corners c
Sector(c, flatFaces, len) ==
    [volume |-> Wedge(c), normal |-> Normals(c, flatFaces, len)]

\* lines 181-238: every sector, for low = -height/2 and high = height/2
Sectors(radius, low, high, angles, flatFaces) ==
    [i \in 1..(Len(angles.at) - 1) |->
        Sector(Corners(radius, low, high, angles.at[i], angles.at[i + 1],
                       angles.field),
               flatFaces, angles.field)]

\* lines 247-248: numpy.add(vertices, translation, out=vertices): the
\* shapes must broadcast to the shape of vertices
Translated(vertices, translation, normals, color, len, kids) ==
    IF Len(translation) # Len(vertices) /\ Len(translation) # 1
    THEN Raises("ValueError", kids)
    ELSE SetMesh(Mesh3D([r \in 1..Len(vertices) |->
                            VAdd(vertices[r],
                                 translation[IF Len(translation) = 1
                                             THEN 1 ELSE r], len)],
                        color, normals, "triangles", FALSE),
                 kids)

\* lines 247-248: the translations, tile(position, (1, n)).reshape((-1, 3))
Translations(position, n, vertices, normals, color, len, kids) ==
    IF Len(Flatten(TileCols(position, n))) % 3 # 0
    THEN Raises("ValueError", kids)
    ELSE Translated(vertices, Reshape3(Flatten(TileCols(position, n))),
                    normals, color, len, kids)

\* lines 240-248: volume.reshape(-1, 3) and normal.reshape(-1, 3) tiled
\* for every position
Tiled(sectors, position, color, len, kids) ==
    Translations(position, 12 * Len(sectors),
                 TileRows(Flatten([i \in 1..Len(sectors) |->
                                     sectors[i].volume]), Len(position)),
                 TileRows(Flatten([i \in 1..Len(sectors) |->
                                     sectors[i].normal]), Len(position)),
                 color, len, kids)

\* lines 176-254, for half = height / 2
SetHalf(position, radius, half, angles, color, flatFaces, kids) ==
    Tiled(Sectors(radius, SScale(I2R(-1), half, angles.field), half, angles,
                  flatFaces),
          position, color, angles.field, kids)

\* lines 171-254: _CylindricalVolume._setData on an item whose scene
\* primitive has the children kids.  position is None or Some(array),
\* radius and height are numbers of the field of angles, angles is
\* [field, at] with at the sequence of the [cos, sin] of each angle.
SetData(position, radius, height, angles, color, flatFaces, kids) ==
    IF position = None \/ Len(position[1]) = 0
    THEN SetEmpty(ChildrenCleared(kids))
    ELSE IF Len(angles.at) = 0
    THEN Raises("ValueError", ChildrenCleared(kids))
    ELSE SetHalf(position[1], radius,
                 SScale(Rat(1, 2), height, angles.field), angles, color,
                 flatFaces, ChildrenCleared(kids))

(***************************************************************************)
(* Box, Cylinder and Hexagon: the angles of their sections                 *)
(***************************************************************************)
\* the field of the multiples of 30 degrees: L = sqrt(3)
Root3 == [len2 |-> I2R(3), root |-> None]

\* numpy.cos of k * 30 degrees, exactly
Cos30(k) ==
    <<Q(I2R(1)), [p |-> I2R(0), q |-> Rat(1, 2)], Q(Rat(1, 2)), Q(I2R(0)),
      Q(Rat(-1, 2)), [p |-> I2R(0), q |-> Rat(-1, 2)], Q(I2R(-1)),
      [p |-> I2R(0), q |-> Rat(-1, 2)], Q(Rat(-1, 2)), Q(I2R(0)),
      Q(Rat(1, 2)), [p |-> I2R(0), q |-> Rat(1, 2)]>>[(k % 12) + 1]

\* numpy.cos of k * 18 degrees rounded to twentieths, in twentieths: these
\* angles have no exact value in the field, and a float holds an
\* approximation too
Cos18(k) ==
    <<20, 19, 16, 12, 6, 0, -6, -12, -16, -19,
      -20, -19, -16, -12, -6, 0, 6, 12, 16, 19>>[(k % 20) + 1]

\* the angle of deg degrees, for deg a multiple of 30 or of 18
Degrees(deg) ==
    IF deg % 30 = 0
    THEN [cos |-> Cos30(deg \div 30), sin |-> Cos30((deg \div 30) + 9)]
    ELSE [cos |-> Q(Rat(Cos18(deg \div 18), 20)),
          sin |-> Q(Rat(Cos18((deg \div 18) + 15), 20))]

\* the sum of two angles, and the opposite of an angle
AngleAdd(a, b, len) ==
    [cos |-> SSub(SMul(a.cos, b.cos, len), SMul(a.sin, b.sin, len), len),
     sin |-> SAdd(SMul(a.sin, b.cos, len), SMul(a.cos, b.sin, len), len)]

AngleNeg(a, len) == [cos |-> a.cos, sin |-> SScale(I2R(-1), a.sin, len)]

\* numpy.arcsin(opposite / diagonal) for a right triangle of sides adjacent
\* and opposite and of hypotenuse L, the diagonal: an angle of positive
\* cosine
ArcSin(opposite, adjacent, len) ==
    [cos |-> SScale(RDiv(I2R(Abs(adjacent)), len.len2),
                    Surd(I2R(0), I2R(1), len), len),
     sin |-> SScale(RDiv(I2R(opposite), len.len2),
                    Surd(I2R(0), I2R(1), len), len)]

\* numpy.linspace(start, start + 2 * pi, num) in degrees, for start in
\* degrees and num >= 1
LinSpace(start, num) ==
    [k \in 1..num |->
        Degrees(IF num = 1 THEN start
                ELSE start + ((k - 1) * 360) \div (num - 1))]

\* lines 287-293: [0, alpha, alpha + beta, alpha + beta + alpha, 2 * pi]
\* - 0.5 * alpha, for a = 0.5 * alpha and ab = a + beta
BoxAnglesOf(a, ab, len) ==
    <<AngleNeg(a, len), a, ab, AngleAdd(AngleAdd(a, a, len), ab, len),
      AngleNeg(a, len)>>

\* lines 285-293: the angles of a box from a = arcsin(sy / d), half of
\* alpha, and b = arcsin(sx / d), half of beta
BoxAngles(a, b, len) ==
    BoxAnglesOf(a, AngleAdd(a, AngleAdd(b, b, len), len), len)

(***************************************************************************)
(* Box.setData, Cylinder.setData and Hexagon.setData.  A position given    *)
(* to them is [ndim, data]: a list of rows for ndim = 2, a flat list for   *)
(* ndim = 1.  Sizes, radius, height and nbFaces are integers, the phase    *)
(* is in degrees.                                                          *)
(***************************************************************************)
\* numpy.atleast_2d(position)
AtLeast2D(position) ==
    Some(IF position.ndim = 1 THEN <<position.data>> ELSE position.data)

\* lines 284-299, with the field of the diagonal sqrt(sx^2 + sy^2)
BoxOfDiagonal(position, size, color, len, kids) ==
    SetData(AtLeast2D(position),
            SScale(Rat(1, 2), Surd(I2R(0), I2R(1), len), len),
            Q(I2R(size[3])),
            [field |-> len,
             at |-> BoxAngles(ArcSin(size[2], size[1], len),
                              ArcSin(size[1], size[2], len), len)],
            color, TRUE, kids)

\* lines 280-299: Box.setData, for sizes that are not zero
BoxSetData(position, size, color, kids) ==
    BoxOfDiagonal(position, size, color,
                  Length(I2R(size[1] * size[1] + size[2] * size[2])), kids)

\* lines 280-282: the attributes that Box.setData stores
BoxAttrs(position, size, color) ==
    Some([position |-> AtLeast2D(position), size |-> size, color |-> color])

\* lines 361-367: Cylinder.setData, for nbFaces >= 0
CylinderSetData(position, radius, height, color, nbFaces, kids) ==
    SetData(AtLeast2D(position), Q(I2R(radius)), Q(I2R(height)),
            [field |-> Root3, at |-> LinSpace(0, nbFaces + 1)],
            color, FALSE, kids)

\* lines 355-359
CylinderAttrs(position, radius, height, color, nbFaces) ==
    Some([position |-> AtLeast2D(position), radius |-> radius,
          height |-> height, color |-> color, nbFaces |-> nbFaces])

\* lines 439-445: Hexagon.setData
HexagonSetData(position, radius, height, color, phase, kids) ==
    SetData(AtLeast2D(position), Q(I2R(radius)), Q(I2R(height)),
            [field |-> Root3, at |-> LinSpace(phase, 7)],
            color, TRUE, kids)

\* lines 433-437
HexagonAttrs(position, radius, height, color, phase) ==
    Some([position |-> AtLeast2D(position), radius |-> radius,
          height |-> height, color |-> color, phase |-> phase])

\* the default position ((0, 0, 0),) and color (1, 1, 1) of the set calls
DefaultPosition ==
    [ndim |-> 2, data |-> <<<<Q(I2R(0)), Q(I2R(0)), Q(I2R(0))>>>>]

DefaultColor == <<1, 1, 1>>

\* the default of nbFaces in Cylinder.setData
DefaultNbFaces == 20

\* the item when its constructor returns: Mesh and _CylindricalVolume
\* hold no mesh, the others have run setData()
Constructed(class) ==
    IF class = "Box"
    THEN [outcome |-> BoxSetData(DefaultPosition, <<1, 1, 1>>, DefaultColor,
                                 <<>>),
          attrs |-> BoxAttrs(DefaultPosition, <<1, 1, 1>>, DefaultColor)]
    ELSE IF class = "Cylinder"
    THEN [outcome |-> CylinderSetData(DefaultPosition, 1, 1, DefaultColor,
                                      DefaultNbFaces, <<>>),
          attrs |-> CylinderAttrs(DefaultPosition, 1, 1, DefaultColor,
                                  DefaultNbFaces)]
    ELSE IF class = "Hexagon"
    THEN [outcome |-> HexagonSetData(DefaultPosition, 1, 1, DefaultColor, 0,
                                     <<>>),
          attrs |-> HexagonAttrs(DefaultPosition, 1, 1, DefaultColor, 0)]
    ELSE [outcome |-> Outcome("none", TRUE, PyNone, <<>>, None),
          attrs |-> None]

(***************************************************************************)
(* A 3D item in use: set calls on one item                                 *)
(***************************************************************************)
\* the variables of the profile toolbar that a set call leaves alone
profileVars == <<roiInfo, overlayColor, lineWidth, checkedAction, connected,
                 activeImage, items, curves, graphTitle>>

\* the item after a set call of outcome r
Apply(r) ==
    /\ mesh' = IF r.assigned THEN r.mesh ELSE mesh
    /\ children' = r.children
    /\ emitted' = r.emitted
    /\ raised' = r.raised

\* points (x, y, z)
Point0 == <<Q(I2R(0)), Q(I2R(0)), Q(I2R(0))>>

Point1 == <<Q(I2R(1)), Q(I2R(-2)), Q(Rat(1, 2))>>

Point2 == <<Q(I2R(-3)), Q(I2R(0)), Q(I2R(2))>>

\* position arrays of shape (N, 3), and None
Positions ==
    {None, Some(<<>>), Some(<<Point1>>), Some(<<Point1, Point2>>)}

\* positions given to Box, Cylinder and Hexagon: [], an empty (0, 3)
\* array, one point (x, y, z), a list of two points
ListPositions ==
    {[ndim |-> 1, data |-> <<>>], [ndim |-> 2, data |-> <<>>],
     [ndim |-> 1, data |-> Point1],
     [ndim |-> 2, data |-> <<Point1, Point2>>]}

\* angle arrays in the field of sqrt(3): degrees to [cos, sin]
AnglesOf(degrees) ==
    [field |-> Root3, at |-> [k \in 1..Len(degrees) |-> Degrees(degrees[k])]]

\* Mesh.setData(position, color, normal, mode, copy)
CallMeshSetData(position, mode) ==
    /\ itemClass = "Mesh"
    /\ \E r \in {MeshSetData(position, DefaultColor, None, mode, TRUE,
                             children)} : Apply(r)
    /\ call' = Some([position |-> position, mode |-> mode])
    /\ lastOp' = "setData"
    /\ UNCHANGED <<profileVars, ret, itemClass, attrs, infoVars, legendVars>>

\* _CylindricalVolume._setData(position, radius, height, angles, color,
\* flatFaces)
CallSetData(position, radius, height, degrees, flatFaces) ==
    /\ itemClass = "_CylindricalVolume"
    /\ \E r \in {SetData(position, Q(I2R(radius)), Q(I2R(height)),
                         AnglesOf(degrees), DefaultColor, flatFaces,
                         children)} : Apply(r)
    /\ call' = Some([position |-> position, radius |-> radius,
                     height |-> height, degrees |-> degrees,
                     flatFaces |-> flatFaces])
    /\ lastOp' = "setData"
    /\ UNCHANGED <<profileVars, ret, itemClass, attrs, infoVars, legendVars>>

\* Box.setData(position, size, color)
CallBoxSetData(position, size) ==
    /\ itemClass = "Box"
    /\ attrs' = BoxAttrs(position, size, DefaultColor)
    /\ \E r \in {BoxSetData(position, size, DefaultColor, children)} :
          Apply(r)
    /\ call' = Some([position |-> position, size |-> size])
    /\ lastOp' = "setData"
    /\ UNCHANGED <<profileVars, ret, itemClass, infoVars, legendVars>>

\* Cylinder.setData(position, radius, height, color, nbFaces)
CallCylinderSetData(position, radius, nbFaces) ==
    /\ itemClass = "Cylinder"
    /\ attrs' = CylinderAttrs(position, radius, 1, DefaultColor, nbFaces)
    /\ \E r \in {CylinderSetData(position, radius, 1, DefaultColor, nbFaces,
                                 children)} : Apply(r)
    /\ call' = Some([position |-> position, radius |-> radius,
                     nbFaces |-> nbFaces])
    /\ lastOp' = "setData"
    /\ UNCHANGED <<profileVars, ret, itemClass, infoVars, legendVars>>

\* Hexagon.setData(position, radius, height, color, phase)
CallHexagonSetData(position, height, phase) ==
    /\ itemClass = "Hexagon"
    /\ attrs' = HexagonAttrs(position, 1, height, DefaultColor, phase)
    /\ \E r \in {HexagonSetData(position, 1, height, DefaultColor, phase,
                                children)} : Apply(r)
    /\ call' = Some([position |-> position, height |-> height,
                     phase |-> phase])
    /\ lastOp' = "setData"
    /\ UNCHANGED <<profileVars, ret, itemClass, infoVars, legendVars>>

\* what a getter does: the exception it raises or the value it returns
Returns(value) == [raised |-> "none", value |-> Some(value)]

GetterRaises(error) == [raised |-> error, value |-> None]

\* numpy.empty((0, columns), dtype=numpy.float32)
EmptyArray(columns) == [type |-> "ndarray", shape |-> <<0, columns>>]

\* self._mesh.getAttribute(name, copy=copy): the buffer of a Mesh3D; an
\* int has no such method
GetAttribute(m, name) ==
    IF m.type = "Mesh3D" THEN Returns(m[name])
    ELSE GetterRaises("AttributeError")

\* lines 97-109: Mesh.getPositionData on an item of _mesh m
GetPositionData(m) ==
    IF m = PyNone THEN Returns(EmptyArray(3)) ELSE GetAttribute(m, "position")

\* lines 111-123: Mesh.getColorData
GetColorData(m) ==
    IF m = PyNone THEN Returns(EmptyArray(4)) ELSE GetAttribute(m, "color")

\* lines 125-137: Mesh.getNormalData
GetNormalData(m) ==
    IF m = PyNone THEN Returns(PyNone) ELSE GetAttribute(m, "normal")

\* lines 139-145: Mesh.getDrawMode, self._mesh.drawMode: None and an int
\* have no such attribute
GetDrawMode(m) ==
    IF m.type = "Mesh3D" THEN Returns(m.mode)
    ELSE GetterRaises("AttributeError")

\* lines 92-95: the tuple of the four values, computed in order
TupleOf(position, color, normal, mode) ==
    IF position.raised # "none" THEN position
    ELSE IF color.raised # "none" THEN color
    ELSE IF normal.raised # "none" THEN normal
    ELSE IF mode.raised # "none" THEN mode
    ELSE Returns(<<position.value[1], color.value[1], normal.value[1],
                   mode.value[1]>>)

\* lines 83-95: Mesh.getData
GetData(m) ==
    TupleOf(GetPositionData(m), GetColorData(m), GetNormalData(m),
            GetDrawMode(m))

\* a getter of outcome r has run on the Mesh item
Got(getter, r) ==
    /\ itemClass = "Mesh"
    /\ ret' = r.value
    /\ raised' = r.raised
    /\ call' = None
    /\ lastOp' = getter
    /\ UNCHANGED <<profileVars, meshVars, infoVars, legendVars>>

CallGetData == Got("getData", GetData(mesh))

CallGetPositionData == Got("getPositionData", GetPositionData(mesh))

CallGetColorData == Got("getColorData", GetColorData(mesh))

CallGetNormalData == Got("getNormalData", GetNormalData(mesh))

CallGetDrawMode == Got("getDrawMode", GetDrawMode(mesh))

ItemClasses == {"Mesh", "_CylindricalVolume", "Box", "Cylinder", "Hexagon"}

\* an item of any class when its constructor has returned
InitMesh ==
    /\ InitToolBar
    /\ activeImage = None
    /\ lastOp = "init"
    /\ call = None
    /\ ret = None
    /\ itemClass \in ItemClasses
    /\ \E c \in {Constructed(itemClass)} :
          /\ mesh = c.outcome.mesh
          /\ children = c.outcome.children
          /\ emitted = c.outcome.emitted
          /\ attrs = c.attrs
    /\ NoPositionInfo /\ NoLegends

NextMesh ==
    \/ \E position \in Positions, mode \in {"triangles", "lines", "quads"} :
          CallMeshSetData(position, mode)
    \/ \E position \in Positions, shape \in {<<1, 1>>, <<2, 3>>},
          degrees \in {<<>>, <<0, 90>>, <<0, 120, 240, 360>>},
          flatFaces \in BOOLEAN :
          CallSetData(position, shape[1], shape[2], degrees, flatFaces)
    \/ \E position \in ListPositions, size \in {<<1, 1, 1>>, <<3, 4, 2>>} :
          CallBoxSetData(position, size)
    \/ \E position \in ListPositions, radius \in {1, 2},
          nbFaces \in {0, 3, 4} :
          CallCylinderSetData(position, radius, nbFaces)
    \/ \E position \in ListPositions, height \in {1, 3}, phase \in {0, 30} :
          CallHexagonSetData(position, height, phase)
    \/ CallGetData
    \/ CallGetPositionData
    \/ CallGetColorData
    \/ CallGetNormalData
    \/ CallGetDrawMode

SpecMesh == InitMesh /\ [][NextMesh]_vars

(***************************************************************************)
(* Claims about the 3D items                                               *)
(***************************************************************************)
\* a set call has just returned or raised
AfterSetData == lastOp = "setData" /\ call # None

\* the positions of the last set call, as _setData or Mesh.setData saw
\* them: None or Some(array)
CallPosition ==
    IF itemClass \in {"Mesh", "_CylindricalVolume"} THEN call[1].position
    ELSE AtLeast2D(call[1].position)

\* the last set call had position None or of length 0
CallEmpty == CallPosition = None \/ Len(CallPosition[1]) = 0

\* the value of _mesh in a freshly created Mesh (line 48)
FreshMesh == PyNone

\* C11: after Mesh.setData or _CylindricalVolume._setData with position
\* None or of length 0, the mesh reference is the null sentinel that a
\* freshly created item holds.
C11_NullSentinel == (AfterSetData /\ CallEmpty) => mesh = FreshMesh

\* C12: a set call that fails leaves the children of the scene node and
\* the stored mesh reference as they were before the call.
C12_FailedCallKeepsGeometry ==
    [][(lastOp' = "setData" /\ raised' # "none")
          => (children' = children /\ mesh' = mesh)]_vars

\* C17: after a successful set call the children of the scene node are
\* exactly the mesh built by that call when its positions were not empty,
\* and empty when they were: never two meshes, never an earlier one.
C17_OneCurrentMesh ==
    (AfterSetData /\ raised = "none") =>
        IF CallEmpty THEN children = <<>>
        ELSE /\ children = <<mesh>>
             /\ mesh.type = "Mesh3D"
             /\ itemClass = "Mesh" =>
                    /\ mesh.position = CallPosition[1]
                    /\ mesh.mode = call[1].mode
             /\ itemClass # "Mesh" =>
                    Len(mesh.position) % Len(CallPosition[1]) = 0

\* a second successful call on a box, which held the mesh of its
\* constructor, then the one of the call
C17_Witness ==
    /\ AfterSetData
    /\ raised = "none"
    /\ itemClass = "Box"
    /\ ~CallEmpty
    /\ call[1].size = <<3, 4, 2>>
    /\ Len(children) = 1

\* the number of angles that the last set call gave to _setData
CallAngleCount ==
    IF itemClass = "_CylindricalVolume" THEN Len(call[1].degrees)
    ELSE IF itemClass = "Box" THEN 5
    ELSE IF itemClass = "Cylinder" THEN call[1].nbFaces + 1
    ELSE 7

\* the field of the coordinates that the last set call computed
CallField ==
    IF itemClass = "Box"
    THEN Length(I2R(call[1].size[1] * call[1].size[1]
                    + call[1].size[2] * call[1].size[2]))
    ELSE Root3

\* the rows of one block: 12 for every sector
BlockRows == (CallAngleCount - 1) * 12

\* _setData has built a mesh for positions that were not empty
VolumeBuilt ==
    /\ AfterSetData
    /\ raised = "none"
    /\ itemClass # "Mesh"
    /\ ~CallEmpty

\* a direct call of _setData has built a mesh
DirectVolumeBuilt == VolumeBuilt /\ itemClass = "_CylindricalVolume"

\* the sectors of the wedge of a direct call of _setData, not translated
CallSectors ==
    Sectors(Q(I2R(call[1].radius)), Q(Rat(-call[1].height, 2)),
            Q(Rat(call[1].height, 2)), AnglesOf(call[1].degrees),
            call[1].flatFaces)

\* row v of the wedge of a direct call: a vertex and its normal
WedgeVertex(v) == CallSectors[((v - 1) \div 12) + 1].volume[((v - 1) % 12) + 1]

WedgeNormal(v) == CallSectors[((v - 1) \div 12) + 1].normal[((v - 1) % 12) + 1]

\* row v of block p of the mesh
BlockVertex(p, v) == mesh.position[(p - 1) * BlockRows + v]

BlockNormal(p, v) == mesh.normal[(p - 1) * BlockRows + v]

\* C13: for positions that are not empty, _setData gives vertex and normal
\* arrays of len(positions) * (len(angles) - 1) * 12 rows, in
\* len(positions) blocks; block p holds the wedge vertices translated by
\* positions[p] and the wedge normals, not translated.
C13_TiledAndTranslated ==
    VolumeBuilt =>
        /\ Len(mesh.position) = Len(CallPosition[1]) * BlockRows
        /\ Len(mesh.normal) = Len(CallPosition[1]) * BlockRows
        /\ \A p \in 1..Len(CallPosition[1]), v \in 1..BlockRows :
              /\ VSub(BlockVertex(p, v), CallPosition[1][p], CallField)
                    = VSub(BlockVertex(1, v), CallPosition[1][1], CallField)
              /\ BlockNormal(p, v) = BlockNormal(1, v)
              /\ itemClass = "_CylindricalVolume" =>
                    /\ BlockVertex(p, v)
                          = VAdd(WedgeVertex(v), CallPosition[1][p], CallField)
                    /\ BlockNormal(p, v) = WedgeNormal(v)

\* three sectors at two positions: two blocks of 36 rows
C13_Witness ==
    /\ DirectVolumeBuilt
    /\ call[1].position = Some(<<Point1, Point2>>)
    /\ call[1].degrees = <<0, 120, 240, 360>>
    /\ Len(mesh.position) = 72
    /\ BlockVertex(2, 1) # BlockVertex(1, 1)

\* the apexes of a direct call: on the axis at z = -height/2 and
\* z = +height/2
ApexBottom == <<Q(I2R(0)), Q(I2R(0)), Q(Rat(-call[1].height, 2))>>

ApexTop == <<Q(I2R(0)), Q(I2R(0)), Q(Rat(call[1].height, 2))>>

\* the rim points of a direct call at angles[i] (i from 1): at distance
\* radius from the axis, at the bottom and at the top
RimBottom(i) ==
    <<SScale(I2R(call[1].radius), Degrees(call[1].degrees[i]).cos, Root3),
      SScale(I2R(call[1].radius), Degrees(call[1].degrees[i]).sin, Root3),
      Q(Rat(-call[1].height, 2))>>

RimTop(i) ==
    <<RimBottom(i)[1], RimBottom(i)[2], Q(Rat(call[1].height, 2))>>

\* the two side-wall triangles of sector i
SideWalls(i) ==
    <<RimBottom(i), RimBottom(i + 1), RimTop(i),
      RimBottom(i + 1), RimTop(i + 1), RimTop(i)>>

\* the 12 vertices of sector i of the first block, translated back
SectorVertices(i) ==
    [k \in 1..12 |->
        VSub(BlockVertex(1, (i - 1) * 12 + k), CallPosition[1][1], Root3)]

\* C14 (as stated): the 12 vertices of sector i are the bottom cap
\* (apex-bottom, rim-i, rim-i+1), the two side walls and the top cap
\* (apex-top, rim-i+1, rim-i).
C14_ApexFirstCaps ==
    DirectVolumeBuilt =>
        \A i \in 1..(CallAngleCount - 1) :
            SectorVertices(i)
                = <<ApexBottom, RimBottom(i), RimBottom(i + 1)>>
                    \o SideWalls(i)
                    \o <<ApexTop, RimTop(i + 1), RimTop(i)>>

\* C14 (amended): the 12 vertices of sector i are the bottom cap
\* (apex-bottom, rim-i+1, rim-i), the two side walls and the top cap
\* (rim-i, rim-i+1, apex-top), apexes on the axis at z = -height/2 and
\* z = +height/2, rim points at distance radius at angles[i] and
\* angles[i+1].
C14_OutwardCaps ==
    DirectVolumeBuilt =>
        \A i \in 1..(CallAngleCount - 1) :
            SectorVertices(i)
                = <<ApexBottom, RimBottom(i + 1), RimBottom(i)>>
                    \o SideWalls(i)
                    \o <<RimTop(i), RimTop(i + 1), ApexTop>>

\* three sectors of radius 2 and height 3 at one position
C14_Witness ==
    /\ DirectVolumeBuilt
    /\ call[1].radius = 2
    /\ call[1].height = 3
    /\ call[1].degrees = <<0, 120, 240, 360>>
    /\ call[1].position = Some(<<Point1>>)
    /\ SectorVertices(2)[1] = ApexBottom
    /\ SectorVertices(2)[2] # SectorVertices(2)[3]

\* the three vertices and the three normals of triangle t (from 0) of
\* sector i in the first block
TriangleVertices(i, t) ==
    [k \in 1..3 |-> BlockVertex(1, (i - 1) * 12 + 3 * t + k)]

TriangleNormals(i, t) ==
    [k \in 1..3 |-> BlockNormal(1, (i - 1) * 12 + 3 * t + k)]

\* the cross product of the edges from the first vertex of a triangle
EdgeCross(tri) ==
    Cross(VSub(tri[2], tri[1], Root3), VSub(tri[3], tri[1], Root3), Root3)

ZeroVector == <<Q(I2R(0)), Q(I2R(0)), Q(I2R(0))>>

\* the three vertices of triangle t of sector i carry its face normal
FaceNormal(i, t) ==
    /\ TriangleNormals(i, t)[1] = EdgeCross(TriangleVertices(i, t))
    /\ TriangleNormals(i, t)[2] = TriangleNormals(i, t)[1]
    /\ TriangleNormals(i, t)[3] = TriangleNormals(i, t)[1]
    /\ EdgeCross(TriangleVertices(i, t)) # ZeroVector
          => TriangleNormals(i, t)[1] # ZeroVector

\* C15: with flatFaces true, the three vertices of each of the four
\* triangles of a sector carry the same vector, the cross product of two
\* edges of the triangle, which is not zero when the triangle is not
\* degenerate.
C15_FlatFaceNormals ==
    (DirectVolumeBuilt /\ call[1].flatFaces) =>
        \A i \in 1..(CallAngleCount - 1), t \in 0..3 : FaceNormal(i, t)

(***************************************************************************)
(* PositionInfo: the fields that show the position of the mouse            *)
(***************************************************************************)
\* the side of the plot area in pixels
PlotSize == 100

\* the views of the plot: a data point (x, y) is drawn at the pixel
\* (ox + sx * x, oy + sy * y)
Transforms ==
    {[ox |-> 0, sx |-> 1, oy |-> 0, sy |-> 1],
     [ox |-> 20, sx |-> 10, oy |-> 60, sy |-> -10]}

\* plot.dataToPixel(x, y, axis): the pixel of a data point, None for a
\* point that is not in the plot area
DataToPixel(view, x, y) ==
    IF /\ RLe(I2R(0), RAdd(I2R(view.ox), RMul(I2R(view.sx), x)))
       /\ RLe(RAdd(I2R(view.ox), RMul(I2R(view.sx), x)), I2R(PlotSize))
       /\ RLe(I2R(0), RAdd(I2R(view.oy), RMul(I2R(view.sy), y)))
       /\ RLe(RAdd(I2R(view.oy), RMul(I2R(view.sy), y)), I2R(PlotSize))
    THEN Some(<<RAdd(I2R(view.ox), RMul(I2R(view.sx), x)),
                RAdd(I2R(view.oy), RMul(I2R(view.sy), y))>>)
    ELSE None

\* the 'mouseMoved' event that the plot sends for the mouse at the pixel
\* (xpixel, ypixel): x and y are the data coordinates of that pixel
MouseMoved(view, xpixel, ypixel) ==
    [event |-> "mouseMoved",
     x |-> Rat(xpixel - view.ox, view.sx),
     y |-> Rat(ypixel - view.oy, view.sy),
     xpixel |-> I2R(xpixel), ypixel |-> I2R(ypixel)]

\* pow(xData - x, 2) + pow(yData - y, 2) for point k of a curve
Distance2(curve, k, x, y) ==
    RAdd(RMul(RSub(curve.xData[k], x), RSub(curve.xData[k], x)),
         RMul(RSub(curve.yData[k], y), RSub(curve.yData[k], y)))

\* numpy.argmin: the first index of the smallest value
ArgMin(curve, x, y) ==
    CHOOSE k \in 1..Len(curve.xData) :
        /\ \A j \in 1..Len(curve.xData) :
              RLe(Distance2(curve, k, x, y), Distance2(curve, j, x, y))
        /\ \A j \in 1..(k - 1) :
              RLt(Distance2(curve, k, x, y), Distance2(curve, j, x, y))

RAbs(x) == <<Abs(x[1]), x[2]>>

Black == "color: rgb(0, 0, 0);"

Red == "color: rgb(255, 0, 0);"

\* the position given to the converters and the style of the fields
Shown(x, y, styleSheet) == [x |-> x, y |-> y, styleSheet |-> styleSheet]

\* lines 177-185: closestInPixels is not None; xClosest, yClosest are
\* assigned the pixel of the closest point before they are compared with
\* the pixel of the mouse and given to x, y
NearPixel(event, xClosest, yClosest) ==
    IF /\ RLt(RAbs(RSub(xClosest, event.xpixel)), I2R(5))
       /\ RLt(RAbs(RSub(yClosest, event.ypixel)), I2R(5))
    THEN Shown(xClosest, yClosest, Black)
    ELSE Shown(event.x, event.y, Red)

\* lines 173-185
ClosestInPixels(event, closestInPixels) ==
    IF closestInPixels = None THEN Shown(event.x, event.y, Red)
    ELSE NearPixel(event, closestInPixels[1][1], closestInPixels[1][2])

\* lines 167-185: the closest point of the curve
Closest(event, curve, view, closestIndex) ==
    ClosestInPixels(event,
                    DataToPixel(view, curve.xData[closestIndex],
                                curve.yData[closestIndex]))

\* lines 155-185: x, y and styleSheet before the loop on the fields
Position(event, snap, cursor, curve, view) ==
    IF ~(snap /\ cursor) THEN Shown(event.x, event.y, Black)
    ELSE IF curve = None THEN Shown(event.x, event.y, Red)
    ELSE IF curve[1].symbol = "" THEN Shown(event.x, event.y, Red)
    ELSE Closest(event, curve[1], view,
                 ArgMin(curve[1], event.x, event.y))

\* Python values of the converters: a float or a str
PyFloat(x) == [type |-> "float", value |-> x]

PyStr(x) == [type |-> "str", value |-> x]

\* what func(x, y) does: the exception it raises or the value it returns.
\* "X" and "Y" are the default converters (line 103); "Ratio" is
\* lambda x, y: float(x) / float(y); "Side" is
\* lambda x, y: 'left' if x < 0 else 'right'
Func(func, x, y) ==
    IF func = "X" THEN [raised |-> "none", value |-> PyFloat(x)]
    ELSE IF func = "Y" THEN [raised |-> "none", value |-> PyFloat(y)]
    ELSE IF func = "Ratio"
    THEN IF y = I2R(0)
         THEN [raised |-> "ZeroDivisionError", value |-> PyFloat(NaN)]
         ELSE [raised |-> "none", value |-> PyFloat(RDiv(x, y))]
    ELSE [raised |-> "none",
          value |-> PyStr(IF RLt(x, I2R(0)) THEN "left" ELSE "right")]

Pow10(k) ==
    <<1, 10, 100, 1000, 10000, 100000, 1000000, 10000000, 100000000,
      1000000000>>[k + 1]

\* the decimal exponent of a positive rational between 1/1000 and 1000
Exponent(x) ==
    CHOOSE e \in -3..2 :
        /\ RLe(IF e < 0 THEN Rat(1, Pow10(-e)) ELSE I2R(Pow10(e)), x)
        /\ RLt(x, IF e < -1 THEN Rat(1, Pow10(-e - 1)) ELSE I2R(Pow10(e + 1)))

\* the integer closest to a positive rational, the even one of two
Rounded(x) ==
    IF \/ 2 * (x[1] % x[2]) > x[2]
       \/ 2 * (x[1] % x[2]) = x[2] /\ (x[1] \div x[2]) % 2 = 1
    THEN (x[1] \div x[2]) + 1
    ELSE x[1] \div x[2]

\* a positive rational rounded to 7 significant digits, of exponent e
Digits7(x, e) == Rat(Rounded(RMul(x, I2R(Pow10(6 - e)))), Pow10(6 - e))

\* '%.7g' % value: the number that the text denotes, value rounded to 7
\* significant digits
Format7g(x) ==
    IF x[1] = 0 THEN x
    ELSE IF x[1] < 0 THEN RNeg(Digits7(RAbs(x), Exponent(RAbs(x))))
    ELSE Digits7(x, Exponent(x))

\* lines 198-202: the text of a value
Text(value) ==
    IF value.type = "float" THEN [number |-> Format7g(value.value)]
    ELSE [str |-> value.value]

\* lines 190-203: the text of a field after func has run
SetText(result) ==
    IF result.raised # "none" THEN [str |-> "Error"] ELSE Text(result.value)

\* The same loop left at the first converter that raises.
FieldsUntilError(old, shown) ==
    [k \in 1..Len(old) |->
        IF \E j \in 1..(k - 1) :
              Func(old[j].func, shown.x, shown.y).raised # "none"
        THEN old[k]
        ELSE [name |-> old[k].name, func |-> old[k].func,
              styleSheet |-> shown.styleSheet,
              text |-> SetText(Func(old[k].func, shown.x, shown.y))]]

\* lines 187-203: the loop on the fields
Fields(old, shown) ==
    [k \in 1..Len(old) |->
        [name |-> old[k].name, func |-> old[k].func,
         styleSheet |-> shown.styleSheet,
         text |-> SetText(Func(old[k].func, shown.x, shown.y))]]

\* lines 97-138: the fields of a new widget
NewFields(converters) ==
    [k \in 1..Len(converters) |->
        [name |-> converters[k][1], func |-> converters[k][2],
         styleSheet |-> "", text |-> [str |-> "------"]]]

\* the default converters (line 103) and other lists
Converters ==
    {<<<<"X", "X">>, <<"Y", "Y">>>>,
     <<<<"X", "X">>, <<"Ratio", "Ratio">>, <<"Side", "Side">>, <<"Y", "Y">>>>}

\* active curves: points (1, 1) and (9, 2), with and without symbols
Curves ==
    {[xData |-> <<I2R(1), I2R(9)>>, yData |-> <<I2R(1), I2R(2)>>,
      symbol |-> symbol] : symbol \in {"", "o"}}

\* pixels of the mouse
MouseX == {0, 8, 28, 36, 100}

MouseY == {0, 8, 48, 54}

\* PositionInfo._plotEvent(event)
PlotEvent(event) ==
    /\ fields # <<>>
    /\ fields' = IF event.event = "mouseMoved"
                 THEN Fields(fields,
                             Position(event, autoSnapToActiveCurve,
                                      graphCursor, activeCurve, transform[1]))
                 ELSE fields
    /\ call' = Some(event)
    /\ lastOp' = "_plotEvent"
    /\ raised' = "none"
    /\ UNCHANGED <<profileVars, ret, meshVars, autoSnapToActiveCurve,
                   graphCursor, activeCurve, transform>>
    /\ UNCHANGED legendVars

\* positionInfo.autoSnapToActiveCurve = value
SetAutoSnapToActiveCurve(value) ==
    /\ fields # <<>>
    /\ autoSnapToActiveCurve' = value
    /\ call' = Some(value)
    /\ lastOp' = "autoSnapToActiveCurve"
    /\ raised' = "none"
    /\ UNCHANGED <<profileVars, ret, meshVars, fields, graphCursor,
                   activeCurve, transform>>
    /\ UNCHANGED legendVars

\* a new PositionInfo on a plot in any state
InitInfo ==
    /\ InitToolBar
    /\ activeImage = None
    /\ lastOp = "init"
    /\ call = None
    /\ ret = None
    /\ NoItem /\ NoLegends
    /\ fields \in {NewFields(converters) : converters \in Converters}
    /\ autoSnapToActiveCurve = FALSE
    /\ graphCursor \in BOOLEAN
    /\ activeCurve \in {None} \cup {Some(curve) : curve \in Curves}
    /\ transform \in {Some(view) : view \in Transforms}

NextInfo ==
    \/ \E xpixel \in MouseX, ypixel \in MouseY :
          PlotEvent(MouseMoved(transform[1], xpixel, ypixel))
    \/ PlotEvent([event |-> "limitsChanged"])
    \/ \E value \in BOOLEAN : SetAutoSnapToActiveCurve(value)

SpecInfo == InitInfo /\ [][NextInfo]_vars

(***************************************************************************)
(* Claims about PositionInfo                                               *)
(***************************************************************************)
\* _plotEvent has just handled a 'mouseMoved' event
AfterMouseMoved ==
    /\ lastOp = "_plotEvent"
    /\ call # None
    /\ call[1].event = "mouseMoved"

\* the position that the handler gave to the converters
Converted ==
    Position(call[1], autoSnapToActiveCurve, graphCursor, activeCurve,
             transform[1])

\* C16: on a 'mouseMoved' event, a converter that raises makes its own
\* field show 'Error' and no other: every other field shows the value of
\* its own converter for the same (x, y), and the handler returns.
C16_ErrorInOwnField ==
    AfterMouseMoved =>
        /\ raised = "none"
        /\ \A k \in 1..Len(fields) :
              fields[k].text
                  = IF Func(fields[k].func, Converted.x, Converted.y).raised
                        # "none"
                    THEN [str |-> "Error"]
                    ELSE Text(Func(fields[k].func, Converted.x,
                                   Converted.y).value)

\* the mouse at (8, 0): Ratio divides by zero between X and Side, Y
C16_Witness ==
    /\ AfterMouseMoved
    /\ call[1].x = I2R(8)
    /\ call[1].y = I2R(0)
    /\ ~autoSnapToActiveCurve
    /\ Len(fields) = 4
    /\ fields[1].text = [number |-> I2R(8)]
    /\ fields[2].text = [str |-> "Error"]
    /\ fields[3].text = [str |-> "right"]
    /\ fields[4].text = [number |-> I2R(0)]

\* the handler looks for the closest point of the active curve
Snapping ==
    /\ AfterMouseMoved
    /\ autoSnapToActiveCurve
    /\ graphCursor
    /\ activeCurve # None
    /\ activeCurve[1].symbol # ""

\* the data coordinates of the closest point, and its pixel
ClosestData ==
    <<activeCurve[1].xData[ArgMin(activeCurve[1], call[1].x, call[1].y)],
      activeCurve[1].yData[ArgMin(activeCurve[1], call[1].x, call[1].y)]>>

ClosestPixel == DataToPixel(transform[1], ClosestData[1], ClosestData[2])

\* the closest point is within 5 pixels of the mouse on both axes
CloseEnough ==
    /\ ClosestPixel # None
    /\ RLt(RAbs(RSub(ClosestPixel[1][1], call[1].xpixel)), I2R(5))
    /\ RLt(RAbs(RSub(ClosestPixel[1][2], call[1].ypixel)), I2R(5))

\* the fields show the values of the converters at (x, y) in a style
Showing(x, y, styleSheet) ==
    \A k \in 1..Len(fields) :
        /\ fields[k].styleSheet = styleSheet
        /\ fields[k].text = SetText(Func(fields[k].func, x, y))

\* C20: with autoSnapToActiveCurve on, when the closest point of the
\* active curve with symbols is within 5 pixels of the mouse on both axes
\* the converters get the data coordinates of that point and the fields
\* are black; when no point is that close they get the data coordinates
\* of the mouse and the fields are red.
C20_SnapToDataPoint ==
    Snapping =>
        IF CloseEnough THEN Showing(ClosestData[1], ClosestData[2], Black)
        ELSE Showing(call[1].x, call[1].y, Red)

(***************************************************************************)
(* The ranges that updateProfile gives to _alignedPartialProfile           *)
(***************************************************************************)
\* C25: for every free line that takes the fast path and every value of
\* the spin box (0 included, raised to 1), the rowRange and colRange given
\* to _alignedPartialProfile have min < max: its assertions do not fail.
C25_RangesInOrder ==
    AlignedUpdated =>
        /\ ret[1].rowRange[1] < ret[1].rowRange[2]
        /\ ret[1].colRange[1] < ret[1].colRange[2]
        /\ raised # "AssertionError"

\* the spin box at 0 and a line drawn backwards along a negative row
C25_Witness ==
    /\ AlignedUpdated
    /\ lineWidth = 0
    /\ ret[1].roiWidth = 1
    /\ RowAligned
    /\ ret[1].ends[1][1].p[1] < 0
    /\ RLt(roiInfo[1].end[1], roiInfo[1].start[1])

(***************************************************************************)
(* The connection of _plotWindowSlot to the signal of the plot             *)
(***************************************************************************)
\* C24: after any sequence of checking the actions of the exclusive group,
\* _plotWindowSlot is connected exactly once when a drawing action is
\* checked and not at all when browse is checked; it is never connected
\* twice, and disconnect is never called while it is not connected.
C24_ConnectedOnce ==
    /\ connected = IF checkedAction \in DrawingActions THEN 1 ELSE 0
    /\ lastOp = "toggled" => raised # "TypeError"

\* the vertical action checked while the ROI drawn with the horizontal
\* action is still stored: a drawing action was replaced by another
C24_Witness ==
    /\ lastOp = "toggled"
    /\ checkedAction = "vLine"
    /\ connected = 1
    /\ roiInfo # None
    /\ roiInfo[1].mode = "X"

(***************************************************************************)
(* The getters of Mesh                                                     *)
(***************************************************************************)
Getters ==
    {"getData", "getPositionData", "getColorData", "getNormalData",
     "getDrawMode"}

\* C23: on a Mesh in any state reached by construction and setData calls,
\* the getters return without raising; when the item holds no mesh they
\* return an empty (0, 3) position array, an empty (0, 4) color array and
\* None for the normals.
C23_GettersReturn ==
    lastOp \in Getters =>
        /\ raised = "none"
        /\ mesh.type # "Mesh3D" =>
              /\ lastOp = "getPositionData" => ret = Some(EmptyArray(3))
              /\ lastOp = "getColorData" => ret = Some(EmptyArray(4))
              /\ lastOp = "getNormalData" => ret = Some(PyNone)
              /\ lastOp = "getData" =>
                    /\ ret # None
                    /\ ret[1][1] = EmptyArray(3)
                    /\ ret[1][2] = EmptyArray(4)
                    /\ ret[1][3] = PyNone

(***************************************************************************)
(* CurveLegendsWidget: the legends of the curves of a plot.  The widget    *)
(* is a record [legends, layoutWidgets, parented, created]; legend         *)
(* widgets are numbered in the order of their creation.                    *)
(***************************************************************************)
\* the most legend widgets created in a run
MaxWidgets == 4

Plots == {"plot1", "plot2"}

Legends == {"a", "b"}

\* the legends in the order in which a plot lists its curves
LegendOrder == <<"a", "b">>

\* a method has returned, or raised error, with the widget as w
Done(w) == [w |-> w, raised |-> "none"]

Raised(error, w) == [w |-> w, raised |-> error]

\* legend in self._legends
Known(w, legend) == \E k \in 1..Len(w.legends) : w.legends[k].legend = legend

\* self._legends[legend]
WidgetOf(w, legend) ==
    w.legends[CHOOSE k \in 1..Len(w.legends) :
                  w.legends[k].legend = legend].widget

\* line 200: the table after self._legends.pop(legend, None)
Popped(w, legend) ==
    [w EXCEPT !.legends = SelectSeq(w.legends,
                                    LAMBDA e : e.legend # legend)]

\* lines 195-205: _removeLegend.  For a known legend, line 204 reads the
\* name idget, which is bound nowhere: NameError, after the pop
RemoveLegend(w, legend) ==
    IF ~Known(w, legend) THEN Done(w)
    ELSE Raised("NameError", Popped(w, legend))

\* lines 191-193: a new _LegendWidget of parent self, added to the layout
\* and to the table
WithWidget(w, legend) ==
    [legends |-> Append(w.legends,
                        [legend |-> legend, widget |-> w.created + 1]),
     layoutWidgets |-> w.layoutWidgets \cup {w.created + 1},
     parented |-> w.parented \cup {w.created + 1},
     created |-> w.created + 1]

\* lines 174-193: _addLegend with plot the attached plot (None or Some) and
\* shown the legends of its curves
AddLegend(w, plot, shown, legend) ==
    IF Known(w, legend) THEN Done(w)
    ELSE IF plot = None THEN Done(w)
    ELSE IF legend \notin shown THEN Done(w)
    ELSE Done(WithWidget(w, legend))

\* lines 153-172: _plotContentChanged(action, kind, legend)
PlotContentChanged(w, plot, shown, action, kind, legend) ==
    IF kind # "curve" THEN Done(w)
    ELSE IF plot = None THEN Done(w)
    ELSE IF action = "add" THEN AddLegend(w, plot, shown, legend)
    ELSE RemoveLegend(w, legend)

\* lines 142-143: _removeLegend for every legend of keys, in order, until
\* one raises
RECURSIVE RemoveAll(_, _)
RemoveAll(w, keys) ==
    IF keys = <<>> THEN Done(w)
    ELSE IF RemoveLegend(w, Head(keys)).raised # "none"
    THEN RemoveLegend(w, Head(keys))
    ELSE RemoveAll(RemoveLegend(w, Head(keys)).w, Tail(keys))

\* lines 150-151: _addLegend for every legend of keys, in order
RECURSIVE AddAll(_, _, _, _)
AddAll(w, plot, shown, keys) ==
    IF keys = <<>> THEN Done(w)
    ELSE AddAll(AddLegend(w, plot, shown, Head(keys)).w, plot, shown,
                Tail(keys))

\* list(self._legends.keys())
Keys(w) == [k \in 1..Len(w.legends) |-> w.legends[k].legend]

\* plot.getAllCurves(just_legend=True) for a plot of curves shown
AllCurves(shown) == SelectSeq(LegendOrder, LAMBDA legend : legend \in shown)

\* the outcome of setPlotWidget: the widget, _plotRef, the connections and
\* the exception
Attached(r, ref, conns) ==
    [w |-> r.w, plotRef |-> ref, connections |-> conns, raised |-> r.raised]

\* lines 145-151: the new plot is stored, connected and its curves added
Attach(w, conns, curvesOf, plot) ==
    IF plot = None THEN Attached(Done(w), None, conns)
    ELSE Attached(AddAll(w, plot, curvesOf[plot[1]],
                         AllCurves(curvesOf[plot[1]])),
                  plot, [conns EXCEPT ![plot[1]] = @ + 1])

\* lines 142-151, after the legends were removed with outcome removed
AfterRemoval(removed, ref, conns, curvesOf, plot) ==
    IF removed.raised # "none" THEN Attached(removed, ref, conns)
    ELSE Attach(removed.w, conns, curvesOf, plot)

\* lines 132-151: setPlotWidget(plot).  Disconnecting a slot that is not
\* connected raises.
SetPlotWidget(w, ref, conns, curvesOf, plot) ==
    IF ref = None THEN Attach(w, conns, curvesOf, plot)
    ELSE IF conns[ref[1]] = 0 THEN Attached(Raised("TypeError", w), ref, conns)
    ELSE AfterRemoval(RemoveAll(w, Keys(w)), ref,
                      [conns EXCEPT ![ref[1]] = @ - 1], curvesOf, plot)

\* CurveLegendsWidget as a record
Widget ==
    [legends |-> legends, layoutWidgets |-> layoutWidgets,
     parented |-> parented, created |-> created]

\* the widget after a method of outcome r
Becomes(r) ==
    /\ legends' = r.w.legends
    /\ layoutWidgets' = r.w.layoutWidgets
    /\ parented' = r.w.parented
    /\ created' = r.w.created
    /\ raised' = r.raised

\* the variables that the actions on CurveLegendsWidget leave alone
otherVars == <<profileVars, ret, meshVars, infoVars>>

\* widget.setPlotWidget(plot)
CallSetPlotWidget(plot) ==
    /\ plotCurves # <<>>
    /\ plot # None => created + Cardinality(plotCurves[plot[1]]) <= MaxWidgets
    /\ \E r \in {SetPlotWidget(Widget, plotRef, connections, plotCurves,
                               plot)} :
          /\ Becomes(r)
          /\ plotRef' = r.plotRef
          /\ connections' = r.connections
    /\ call' = Some([plot |-> plot])
    /\ lastOp' = "setPlotWidget"
    /\ UNCHANGED <<otherVars, plotCurves>>

\* the plot emits sigContentChanged(action, kind, legend): the slot runs
\* if it is connected
Emit(plot, action, kind, legend) ==
    /\ IF connections[plot] > 0
       THEN /\ Becomes(PlotContentChanged(Widget, plotRef,
                                          IF plotRef = None THEN {}
                                          ELSE plotCurves'[plotRef[1]],
                                          action, kind, legend))
            /\ lastOp' = "_plotContentChanged"
       ELSE /\ UNCHANGED <<legends, layoutWidgets, parented, created>>
            /\ raised' = "none"
            /\ lastOp' = "sigContentChanged"
    /\ call' = Some([plot |-> plot, action |-> action, kind |-> kind,
                     legend |-> legend])
    /\ UNCHANGED <<otherVars, plotRef, connections>>

\* a curve is added to a plot
CurveAdded(plot, legend) ==
    /\ plotCurves # <<>>
    /\ created < MaxWidgets
    /\ legend \notin plotCurves[plot]
    /\ plotCurves' = [plotCurves EXCEPT ![plot] = @ \cup {legend}]
    /\ Emit(plot, "add", "curve", legend)

\* a curve is removed from a plot
CurveRemoved(plot, legend) ==
    /\ plotCurves # <<>>
    /\ legend \in plotCurves[plot]
    /\ plotCurves' = [plotCurves EXCEPT ![plot] = @ \ {legend}]
    /\ Emit(plot, "remove", "curve", legend)

\* an image is added to a plot
ImageAdded(plot, legend) ==
    /\ plotCurves # <<>>
    /\ UNCHANGED plotCurves
    /\ Emit(plot, "add", "image", legend)

\* widget._removeLegend(legend)
CallRemoveLegend(legend) ==
    /\ plotCurves # <<>>
    /\ Becomes(RemoveLegend(Widget, legend))
    /\ call' = Some([legend |-> legend])
    /\ lastOp' = "_removeLegend"
    /\ UNCHANGED <<otherVars, plotRef, connections, plotCurves>>

\* lines 111-114: a new CurveLegendsWidget, and plots with any curves
InitLegends ==
    /\ InitToolBar
    /\ activeImage = None
    /\ lastOp = "init"
    /\ call = None
    /\ ret = None
    /\ NoItem /\ NoPositionInfo
    /\ legends = <<>>
    /\ layoutWidgets = {}
    /\ parented = {}
    /\ plotRef = None
    /\ connections = [plot \in Plots |-> 0]
    /\ plotCurves \in [Plots -> SUBSET Legends]
    /\ created = 0

NextLegends ==
    \/ \E plot \in {None} \cup {Some(p) : p \in Plots} :
          CallSetPlotWidget(plot)
    \/ \E plot \in Plots, legend \in Legends : CurveAdded(plot, legend)
    \/ \E plot \in Plots, legend \in Legends : CurveRemoved(plot, legend)
    \/ \E plot \in Plots, legend \in Legends : ImageAdded(plot, legend)

SpecLegends == InitLegends /\ [][NextLegends]_vars

\* a widget that has been attached to a plot, then direct calls of
\* _removeLegend
InitRemoveLegend ==
    /\ InitToolBar
    /\ activeImage = None
    /\ lastOp = "init"
    /\ call = None
    /\ ret = None
    /\ NoItem /\ NoPositionInfo
    /\ plotCurves \in [Plots -> SUBSET Legends]
    /\ \E plot \in Plots :
          \E r \in {SetPlotWidget([legends |-> <<>>, layoutWidgets |-> {},
                                   parented |-> {}, created |-> 0],
                                  None, [p \in Plots |-> 0], plotCurves,
                                  Some(plot))} :
              /\ legends = r.w.legends
              /\ layoutWidgets = r.w.layoutWidgets
              /\ parented = r.w.parented
              /\ created = r.w.created
              /\ plotRef = r.plotRef
              /\ connections = r.connections

NextRemoveLegend == \E legend \in Legends \cup {"c"} : CallRemoveLegend(legend)

SpecRemoveLegend == InitRemoveLegend /\ [][NextRemoveLegend]_vars

(***************************************************************************)
(* Claims about CurveLegendsWidget                                         *)
(***************************************************************************)
\* the legend widgets that the table gives to legend
TableWidgets(legend) ==
    {legends[k].widget :
        k \in {j \in 1..Len(legends) : legends[j].legend = legend}}

\* the legends of the table
TableLegends == {legends[k].legend : k \in 1..Len(legends)}

\* C21: _removeLegend on a displayed legend completes without error, and
\* afterwards the legend is not in the table and its widget is neither in
\* the layout nor parented to the widget; on an unknown legend it changes
\* nothing.
C21_RemoveLegendCompletes ==
    [][lastOp' = "_removeLegend" =>
          /\ raised' = "none"
          /\ IF call'[1].legend \in TableLegends
             THEN /\ call'[1].legend \notin TableLegends'
                  /\ TableWidgets(call'[1].legend) \cap layoutWidgets' = {}
                  /\ TableWidgets(call'[1].legend) \cap parented' = {}
             ELSE UNCHANGED <<legends, layoutWidgets, parented>>]_vars

\* the curves of the attached plot, none when no plot is attached
AttachedCurves == IF plotRef = None THEN {} ELSE plotCurves[plotRef[1]]

\* C22: after any sequence of setPlotWidget calls and of curve 'add' and
\* 'remove' events of the attached plot, the legends displayed are the
\* curves of the attached plot (none when no plot is attached) with
\* exactly one legend widget per curve, and the widget is connected to the
\* content-changed signal of the attached plot only.
C22_LegendsOfAttachedPlot ==
    /\ TableLegends = AttachedCurves
    /\ Len(legends) = Cardinality(AttachedCurves)
    /\ layoutWidgets = {legends[k].widget : k \in 1..Len(legends)}
    /\ Cardinality(layoutWidgets) = Cardinality(AttachedCurves)
    /\ \A plot \in Plots :
          connections[plot] = IF plotRef = Some(plot) THEN 1 ELSE 0

====
